---- MODULE Spec2Model ----
(***************************************************************************)
(* One run of scrapeYad2 (server/src/scrapers/yad2.ts), in its two fetch   *)
(* variants: the puppeteer ("browser") variant and the axios ("http")      *)
(* variant.  The target site is the environment: every page document,      *)
(* every bucket and every raw item is an input the run reads once, in      *)
(* order, so the model draws it at the moment the code reads it.           *)
(***************************************************************************)
EXTENDS Integers, Sequences, FiniteSets, TLC

\* ------------------------------------------------------------------ bounds

\* The largest value of the `pages` option a run is started with.
MaxPages == 2

\* ------------------------------------------------------- optional values

\* An optional number (a field that may be undefined): <<>> or <<n>>.
None == <<>>
Some(v) == <<v>>

\* JavaScript truthiness of an optional number: defined and not 0.
TruthyNum(o) == o # None /\ o[1] # 0

\* A string field whose key is missing from the object.  Where missing and
\* empty behave alike (the parts of an address) "" stands for both.
Undefined == "<undefined>"

\* JavaScript truthiness of a string, or of a string key that is missing.
TruthyStr(s) == s # "" /\ s # Undefined

\* A value inside a template literal: `${undefined}` is 'undefined'.
Template(s) == IF s = Undefined THEN "undefined" ELSE s

\* ------------------------------------------------------------ raw items

Variants == {"browser", "http"}

\* The tokens the site hands out.
Tokens == {"a", "b"}

\* An item with no token has an empty token or no token key at all.
NoTokens == {"", Undefined}

\* Yad2Address values: texts ("" when the part is absent), the house number
\* and the coordinates as optional numbers.
FullAddr == [street |-> "Jaffa Street", house |-> Some(25),
             neighborhood |-> "Rehavia", city |-> "Jerusalem"]
EmptyAddr == [street |-> "", house |-> None, neighborhood |-> "", city |-> ""]
Addrs == {FullAddr, EmptyAddr}

\* addr.coords: absent, complete, or with lon 0.
NoCoords == [lat |-> None, lon |-> None]
BothCoords == [lat |-> Some(31), lon |-> Some(35)]
LatOnly == [lat |-> Some(31), lon |-> Some(0)]
CoordsIn == {NoCoords, BothCoords, LatOnly}

Prices == {None, Some(0), Some(-1), Some(4500), Some(5200)}
Rooms == {None, Some(0), Some(-1), Some(3)}

Item(t, p, r, a, c) ==
    [token |-> t, price |-> p, rooms |-> r, address |-> a, coords |-> c]

\* The base item and every item that differs from it in one field.
ItemBodies ==
    {Item("", p, Some(3), FullAddr, BothCoords) : p \in Prices}
    \cup {Item("", Some(4500), r, FullAddr, BothCoords) : r \in Rooms}
    \cup {Item("", Some(4500), Some(3), a, BothCoords) : a \in Addrs}
    \cup {Item("", Some(4500), Some(3), FullAddr, c) : c \in CoordsIn}

\* ... under every token, and the base item without a token.
RawItems ==
    {[b EXCEPT !.token = t] : b \in ItemBodies, t \in Tokens}
    \cup {Item(t, Some(4500), Some(3), FullAddr, BothCoords) : t \in NoTokens}

\* ---------------------------------------------------- conversion helpers

\* Array.prototype.join(', ') on a sequence of strings.
RECURSIVE Join(_)
Join(parts) ==
    IF parts = <<>> THEN ""
    ELSE IF Len(parts) = 1 THEN parts[1]
    ELSE parts[1] \o ", " \o Join(Tail(parts))

\* buildAddress without its tests: every part is pushed, absent or not.
buildAddressAllParts(addr) ==
    Join(<<addr.street,
           IF addr.house = None THEN "" ELSE ToString(addr.house[1]),
           addr.neighborhood,
           addr.city>>)

\* buildAddress of both variants: the truthy parts, joined.
buildAddress(addr) ==
    Join(  (IF TruthyStr(addr.street) THEN <<addr.street>> ELSE <<>>)
        \o (IF TruthyNum(addr.house) THEN <<ToString(addr.house[1])>> ELSE <<>>)
        \o (IF TruthyStr(addr.neighborhood) THEN <<addr.neighborhood>> ELSE <<>>)
        \o (IF TruthyStr(addr.city) THEN <<addr.city>> ELSE <<>>))

\* `x || undefined` on an optional number.
OrUndefined(o) == IF TruthyNum(o) THEN o ELSE None

\* The result of feedItemToListing when it returns no listing.
NoListing == [id |-> ""]

\* The fields of the returned Listing that depend on the item.
MkListing(item, rooms, contact) ==
    [id |-> "yad2_" \o Template(item.token),
     source_id |-> item.token,
     address |-> buildAddress(item.address),
     price |-> item.price[1],
     rooms |-> rooms,
     contact_info |-> contact \o Template(item.token),
     source_url |-> "https://www.yad2.co.il/item/" \o Template(item.token),
     lat |-> OrUndefined(item.coords.lat),
     lng |-> OrUndefined(item.coords.lon)]

\* feedItemToListing of the browser variant: address and price are required;
\* a missing room count becomes 0.
feedItemToListingBrowser(item) ==
    IF \/ ~TruthyStr(buildAddress(item.address))
       \/ ~TruthyNum(item.price)
       \/ item.price[1] <= 0
    THEN NoListing
    ELSE MkListing(item,
                   IF TruthyNum(item.rooms) THEN item.rooms[1] ELSE 0,
                   "https://www.yad2.co.il/item/")

\* feedItemToListing of the http variant: address, price and rooms required.
feedItemToListingHttp(item) ==
    IF \/ ~TruthyStr(buildAddress(item.address))
       \/ ~TruthyNum(item.price)
       \/ item.price[1] <= 0
       \/ ~TruthyNum(item.rooms)
       \/ item.rooms[1] <= 0
    THEN NoListing
    ELSE MkListing(item, item.rooms[1], "yad2.co.il/item/")

feedItemToListing(v, item) ==
    IF v = "browser" THEN feedItemToListingBrowser(item)
    ELSE feedItemToListingHttp(item)

\* ------------------------------------------------------- page documents

\* The key fragment that marks the feed query.
FeedMarker == "realestate-rent-feed"

\* state.data of a query: missing, null, or one of two feed objects.
DataValues == {"undefined", "null", "feedA", "feedB"}

\* Truthiness of a value returned by an extractor.
IsFeedData(d) == d \in {"feedA", "feedB"}

\* An entry of dehydratedState.queries: null, or an object whose queryKey is
\* missing or an array of strings and whose state is missing or carries data.
NullQuery == [kind |-> "null", queryKey |-> None, state |-> None]

Query(key, st) == [kind |-> "object", queryKey |-> key, state |-> st]

\* A string of a key is written as its pieces: the occurrences of the feed
\* marker in it and the text around them, which has no part of the marker.
\* ['search-params'], ['realestate-rent-feed', '3000'] and
\* ['x-realestate-rent-feed-v2'].
OtherKey == <<<<"search-params">>>>
FeedKey == <<<<FeedMarker>>, <<"3000">>>>
LongKey == <<<<"x-", FeedMarker, "-v2">>>>

QueryKeys == {None, Some(OtherKey), Some(FeedKey), Some(LongKey)}

QueryStates == {None} \cup {Some(d) : d \in DataValues}

QueryEntries == {NullQuery} \cup {Query(k, st) : k \in QueryKeys,
                                                 st \in QueryStates}

\* The longest query list a document carries.
MaxQueries == 2

QueryLists == UNION {[1..n -> QueryEntries] : n \in 0..MaxQueries}

\* The text of the __NEXT_DATA__ element: not JSON, the JSON value null, an
\* object without dehydratedState.queries, one whose queries is not an array,
\* or one with a query list.
Json(kind, qs) == [kind |-> kind, qs |-> qs]

JsonTexts == {Json(k, <<>>) : k \in {"malformed", "null", "noQueries",
                                     "queriesNotArray"}}
             \cup {Json("queries", qs) : qs \in QueryLists}

\* What follows the JSON text of the element: its closing tag, the end of
\* the page (or white space only), or more markup with no closing tag
\* anywhere.
Closings == {"closed", "atEnd", "markup"}

\* A page as delivered: whether it has the __NEXT_DATA__ script element,
\* what follows the element's JSON text, and that text.
Doc(marker, closed, json) == [marker |-> marker, closed |-> closed,
                              json |-> json]

Documents == {Doc(m, c, j) : m \in BOOLEAN, c \in Closings, j \in JsonTexts}

\* JSON.stringify of an array of strings from element i on, in pieces.
RECURSIVE StringifyFrom(_, _)
StringifyFrom(strings, i) ==
    IF i > Len(strings) THEN <<"]">>
    ELSE (IF i > 1 THEN <<",">> ELSE <<>>)
         \o <<"\"">> \o strings[i] \o <<"\"">>
         \o StringifyFrom(strings, i + 1)

\* JSON.stringify(q.queryKey || '')
StringifyKey(key) ==
    IF key = None THEN <<"\"", "\"">>
    ELSE <<"[">> \o StringifyFrom(key[1], 1)

\* text.includes(part), for a text in pieces and a part that is the marker.
Includes(text, part) == \E i \in 1..Len(text) : text[i] = part

\* JSON.stringify(q.queryKey || '').includes('realestate-rent-feed')
KeyIncludesMarker(key) == Includes(StringifyKey(key), FeedMarker)

\* for (const q of queries) { ... }: "throw" at a null entry (q.queryKey),
\* q.state?.data of the first entry whose key has the marker ("undefined"
\* when state or data is missing), "null" when the loop runs out.
RECURSIVE ScanQueries(_, _)
ScanQueries(qs, i) ==
    IF i > Len(qs) THEN "null"
    ELSE IF qs[i].kind = "null" THEN "throw"
    ELSE IF KeyIncludesMarker(qs[i].queryKey)
         THEN IF qs[i].state = None THEN "undefined" ELSE qs[i].state[1]
    ELSE ScanQueries(qs, i + 1)

\* extractFeedFromPage: the element is looked up in the DOM and its
\* textContent parsed.  An element whose closing tag is missing takes the
\* rest of the page as its text: that is the JSON when the page ends there,
\* and not JSON when markup follows.  Every throw inside page.evaluate is
\* caught there, and a falsy state.data becomes null.
extractFeedFromPage(doc) ==
    IF ~doc.marker THEN "null"
    ELSE IF doc.closed = "markup" \/ doc.json.kind = "malformed" THEN "null"
    ELSE IF doc.json.kind # "queries" THEN "null"
    ELSE LET r == ScanQueries(doc.json.qs, 1) IN
         IF IsFeedData(r) THEN r ELSE "null"

\* extractNextData: None stands for null (marker or closing tag not found,
\* JSON.parse threw, or the text is the JSON value null).
extractNextData(doc) ==
    IF ~doc.marker THEN None
    ELSE IF doc.closed # "closed" THEN None
    ELSE IF doc.json.kind \in {"malformed", "null"} THEN None
    ELSE Some(doc.json)

\* extractFeedFromNextData: nothing is caught here.
extractFeedFromNextData(nextData) ==
    IF nextData.kind # "queries" THEN "null"
    ELSE ScanQueries(nextData.qs, 1)

\* const nextData = extractNextData(html); if (!nextData) continue;
\* const feed = extractFeedFromNextData(nextData);
extractFeedHttp(doc) ==
    LET nextData == extractNextData(doc) IN
    IF nextData = None THEN "null"
    ELSE extractFeedFromNextData(nextData[1])

extractFeed(v, doc) ==
    IF v = "browser" THEN extractFeedFromPage(doc) ELSE extractFeedHttp(doc)

FeedQuery(d) == Query(Some(FeedKey), Some(d))

\* What a page request of the run can deliver: a page without the marker,
\* one whose text is not JSON, one without a query list, one with a null
\* entry before the feed query, one without a feed query, one whose feed
\* query has no state, and one with the feed.
Docs == {Doc(FALSE, "closed", Json("queries", <<FeedQuery("feedA")>>)),
         Doc(TRUE, "closed", Json("malformed", <<>>)),
         Doc(TRUE, "closed", Json("noQueries", <<>>)),
         Doc(TRUE, "closed", Json("queries", <<NullQuery, FeedQuery("feedA")>>)),
         Doc(TRUE, "closed", Json("queries",
                              <<Query(Some(OtherKey),
                                      Some("feedA"))>>)),
         Doc(TRUE, "closed", Json("queries",
                              <<Query(Some(FeedKey), None)>>)),
         Doc(TRUE, "closed", Json("queries", <<FeedQuery("feedA")>>))}

\* The bucket names iterated on every page, in this order.
categories == <<"private", "agency", "yad1", "platinum",
                "trio", "booster", "leadingBroker", "kingOfTheHar">>

\* The rate-limit sleep between pages, in ms.
InterPageDelay(v) == IF v = "browser" THEN 3000 ELSE 2500

\* The sleep after each geocoder call, in ms.
GeocodeDelay == 250

\* What geocodeAddress resolves to: null (no match, provider error, timeout;
\* both providers catch every error) or a coordinate pair.
NoResult == [lat |-> None, lng |-> None]
GeoResults == {NoResult, [lat |-> Some(32), lng |-> Some(34)]}

\* A pass that visits every listing.
NeedsGeocodeAll(l) == TRUE

\* allListings.filter((l) => !l.lat || !l.lng), as positions in allListings.
NeedsGeocode(l) == ~TruthyNum(l.lat) \/ ~TruthyNum(l.lng)

RECURSIVE FilterIdx(_, _)
FilterIdx(ls, i) ==
    IF i > Len(ls) THEN <<>>
    ELSE (IF NeedsGeocode(ls[i]) THEN <<i>> ELSE <<>>) \o FilterIdx(ls, i + 1)

\* ------------------------------------------------------------------ state

VARIABLES
    variant,        \* which scrapeYad2 runs: "browser" or "http"
    pages,          \* options.pages
    geocode,        \* options.geocode
    googleApiKey,   \* whether setGoogleApiKey was called at startup
    pc,             \* the run's position
    pageNum,        \* the page loop's counter
    cat,            \* position in categories while a page is processed
    browser,        \* "null", "open" or "closed"
    allListings,    \* the accumulator
    seenTokens,     \* the seen-token set
    needGeocode,    \* positions of the listings the geocode pass visits
    geoIdx,         \* position in needGeocode
    result,         \* "pending", "returned" (resolved) or "rejected"
    \* history, for stating the properties
    closeCalls,     \* number of browser.close() calls
    failure,        \* the browser start-up step that failed, or "none"
    requested,      \* the page numbers requested so far, in order
    outcome,        \* how the last requested page ended
    slept,          \* ms of rate-limit sleep since the last page request
    outstanding,    \* page requests not yet resolved or rejected
    gap,            \* a bucket of the last requested page was not an array
    firstBuilt,     \* per token: what feedItemToListing makes of the
                    \* first item read with it
    occ,            \* per token: items read with it (counted up to 2)
    preGeo,         \* allListings when the page loop ended
    inFlight,       \* geocodeAddress calls not yet resolved
    geoSlept,       \* ms slept since the last geocodeAddress call resolved
    geoCalls        \* per geocoder call: listing position, sleep before, result

config == <<variant, pages, geocode, googleApiKey>>
brw == <<browser, closeCalls, failure>>
acc == <<allListings, seenTokens, firstBuilt, occ>>
geo == <<needGeocode, geoIdx, preGeo, inFlight, geoSlept, geoCalls>>
reqs == <<requested, outcome, slept, outstanding>>
run == <<config, pc, pageNum, cat, gap, brw, acc, geo, reqs, result>>

\* State of the components modelled next to the run; a run leaves it alone.
VARIABLES
    xdoc,           \* the document handed to the page-state extractor
    xres            \* what the extractor returned, "none" before the call

extraction == <<xdoc, xres>>

\* A browser session with the CaptchaGate of the specification (section 4.2).
VARIABLES
    captcha,        \* CaptchaState
    signal,         \* whether the rendered page shows a challenge signal
    waited,         \* ms the gate has waited for the operator on this page
    gpc,            \* the session's position
    gpage,          \* the page the session is handling
    gres,           \* "pending", "returned" or "fatal"
    challenges      \* challenges detected by the session so far

gate == <<captcha, signal, waited, gpc, gpage, gres, challenges>>

\* Two calls of scrapeYad2 made by two overlapping sync-scrape requests.
Runs == {1, 2}

VARIABLES
    rpc,            \* per call: "idle", "loop", "fetching" or "done"
    rpages,         \* per call: options.pages
    rpage,          \* per call: the page loop's counter
    rseen,          \* per call: its seenTokens
    racc,           \* per call: its allListings
    rfirst,         \* per call and token: what feedItemToListing makes of
                    \* the first item the call read with that token
    rstatus         \* per call: the status of the response to the request
                    \* that made the call, 0 until it is sent

calls == <<rpc, rpages, rpage, rseen, racc, rfirst, rstatus>>

\* The listings table and the calls made on it.
VARIABLES
    rows,           \* the rows of the table
    now,            \* the database clock: datetime('now')
    dbret,          \* what the last call returned or threw
    written,        \* per id: the listing of the last write that succeeded
    given           \* the last call's listings: how many, and their ids

store == <<rows, now, dbret, written, given>>

\* A call of buildAddress.
VARIABLES
    addrIn,         \* the Yad2Address given
    addrOut         \* the string returned, "?" before the call

building == <<addrIn, addrOut>>

\* The loop over the items of one bucket.
VARIABLES
    bitems,         \* the bucket: feed[cat], an array of items
    bidx,           \* the position of the item the loop reads next
    bseen,          \* seenTokens
    bacc            \* allListings

bucket == <<bitems, bidx, bseen, bacc>>

\* A getListings call.
VARIABLES
    qfilters,       \* the ListingFilters given
    qres            \* the rows returned; NotQueried before the call

query == <<qfilters, qres>>

\* POST /api/listings requests.
VARIABLES
    pbody,          \* req.body of the last request
    pgeo,           \* what geocodeAddress did for it
    presp           \* the status answered; 0 before the first request

post == <<pbody, pgeo, presp>>

\* The React state of App and the requests it has in flight.
VARIABLES
    cver,           \* filters: how many times they were changed
    cflight,        \* fetchListings requests issued by the effect, by filters
    rflight,        \* fetchListings requests issued by handleScrape
    cshown,         \* listings: the filters their response was for, -1 if none
    cerror,         \* error is set
    isLoading,
    isScraping,
    nScraping,      \* scrapeYad2 requests in flight
    sver,           \* the filters of the render handleScrape was made in,
                    \* 0 once the handler has called its loadListings
    sfinally,       \* handleScrape is to be resumed after its reload
    showAddForm,
    mpost,          \* the createListing request of the form shown: the
                    \* filters of the render it was sent in, -1 if none
    oposts,         \* per filters: createListing requests of closed forms
    aflight,        \* per filters: fetchListings requests issued by
                    \* onListingAdded
    nDeleting,      \* removeListing requests in flight whose listing is
                    \* among the listings shown
    nGone,          \* removeListing requests in flight whose listing is
                    \* not among them
    cremoved        \* a listing was filtered out of listings since they
                    \* were set

\* The removeListing requests.
deleting == <<nDeleting, nGone>>

\* The form and its requests.
adding == <<showAddForm, mpost, oposts, aflight>>

client == <<cver, cflight, rflight, cshown, cerror, isLoading, isScraping, nScraping,
            sver, sfinally, adding, deleting, cremoved>>

\* Everything but the client.
offClient == <<run, bucket, extraction, gate, calls, store, building, query, post>>

side == <<extraction, gate, calls, store, building, bucket, query, post, client>>
vars == <<run, side>>

ExtractionIdle ==
    /\ xdoc = [marker |-> FALSE, closed |-> "markup",
               json |-> [kind |-> "malformed", qs |-> <<>>]]
    /\ xres = "none"

\* No item with the token has been read.
NotRead == [id |-> "?"]

\* No call of buildAddress is under way.
BuildingIdle ==
    /\ addrIn = EmptyAddr
    /\ addrOut = "?"

\* The ids of the listings written to the table.
DbIds == {"yad2_a", "yad2_b"}

\* No listing was written for the id.
NotWritten == [id |-> "?"]

\* What a call on the table gives back: nothing, a count, or an exception.
Returned(kind, n) == [kind |-> kind, n |-> n]

\* An empty table that no call was made on.
StoreIdle ==
    /\ rows = {}
    /\ now = 0
    /\ dbret = Returned("none", 0)
    /\ written = [id \in DbIds |-> NotWritten]
    /\ given = [n |-> 0, ids |-> {}]

\* No overlapping calls.
CallsIdle ==
    /\ rpc = [r \in Runs |-> "idle"]
    /\ rpages = [r \in Runs |-> 0]
    /\ rpage = [r \in Runs |-> 0]
    /\ rseen = [r \in Runs |-> {}]
    /\ racc = [r \in Runs |-> <<>>]
    /\ rfirst = [r \in Runs |-> [t \in Tokens |-> NotRead]]
    /\ rstatus = [r \in Runs |-> 0]

\* No session is open.
GateIdle ==
    /\ captcha = "None"
    /\ signal = FALSE
    /\ waited = 0
    /\ gpc = "idle"
    /\ gpage = 0
    /\ gres = "pending"
    /\ challenges = 0

\* No bucket is being read.
BucketIdle ==
    /\ bitems = <<>>
    /\ bidx = 1
    /\ bseen = {}
    /\ bacc = <<>>

\* The value of qres before a getListings call.
NotQueried == {[id |-> "?"]}

\* No getListings call was made.
QueryIdle ==
    /\ qfilters = [id |-> "?"]
    /\ qres = NotQueried

\* No POST /api/listings request was made.
PostIdle ==
    /\ pbody = [id |-> "?"]
    /\ pgeo = "notCalled"
    /\ presp = 0

\* App is not mounted.
ClientIdle ==
    /\ cver = 0
    /\ cflight = {}
    /\ rflight = {}
    /\ cshown = -1
    /\ cerror = FALSE
    /\ isLoading = TRUE
    /\ isScraping = FALSE
    /\ nScraping = 0
    /\ sver = 0
    /\ sfinally = FALSE
    /\ showAddForm = FALSE
    /\ mpost = -1
    /\ oposts = <<>>
    /\ aflight = <<>>
    /\ nDeleting = 0
    /\ nGone = 0
    /\ cremoved = FALSE

InitRun ==
    /\ variant \in Variants
    /\ pages \in 1..MaxPages
    /\ geocode \in BOOLEAN
    /\ googleApiKey \in BOOLEAN
    /\ pc = "start"
    /\ pageNum = 1
    /\ cat = 0
    /\ browser = "null"
    /\ allListings = <<>>
    /\ seenTokens = {}
    /\ needGeocode = <<>>
    /\ geoIdx = 0
    /\ result = "pending"
    /\ closeCalls = 0
    /\ failure = "none"
    /\ requested = <<>>
    /\ outcome = "none"
    /\ outstanding = 0
    /\ gap = FALSE
    /\ slept = 0
    /\ firstBuilt = [t \in Tokens |-> NotRead]
    /\ occ = [t \in Tokens |-> 0]
    /\ preGeo = <<>>
    /\ inFlight = 0
    /\ geoSlept = 0
    /\ geoCalls = <<>>

\* One run of scrapeYad2, from its call.
Init ==
    /\ InitRun
    /\ ClientIdle
    /\ PostIdle
    /\ QueryIdle
    /\ BucketIdle
    /\ ExtractionIdle
    /\ GateIdle
    /\ CallsIdle
    /\ StoreIdle
    /\ BuildingIdle

\* --------------------------------------------------------- browser start

\* http variant: the run starts with the page loop.
StartHttp ==
    /\ pc = "start" /\ variant = "http"
    /\ pc' = "loop"
    /\ UNCHANGED <<config, side, pageNum, cat, gap, brw, acc, geo, reqs, result>>

\* browser variant: process.env.CHROME_PATH || findChromePath(), before the
\* try block; findChromePath throws when no executable is found.
FindChrome(found) ==
    /\ pc = "start" /\ variant = "browser"
    /\ IF found
       THEN /\ pc' = "launch"
            /\ UNCHANGED <<failure, result>>
       ELSE /\ pc' = "done"
            /\ failure' = "findChromePath"
            /\ result' = "rejected"
    /\ UNCHANGED <<config, side, pageNum, cat, gap, browser, closeCalls, acc, geo, reqs>>

\* puppeteer.launch inside the outer try: a rejection goes to the outer
\* catch, which logs, then to the finally block.
Launch(ok) ==
    /\ pc = "launch"
    /\ IF ok
       THEN /\ browser' = "open"
            /\ pc' = "setup"
            /\ UNCHANGED failure
       ELSE /\ failure' = "launch"
            /\ pc' = "finally"
            /\ UNCHANGED browser
    /\ UNCHANGED <<config, side, pageNum, cat, gap, closeCalls, acc, geo, reqs, result>>

\* The calls between launch and the page loop; `failed` names the one that
\* throws ("none": all succeed).  A throw goes to the outer catch.
SetupSteps == {"newPage", "setViewport", "setUserAgent", "setExtraHTTPHeaders"}

SetupPage(failed) ==
    /\ pc = "setup"
    /\ failure' = failed
    /\ pc' = IF failed = "none" THEN "loop" ELSE "finally"
    /\ UNCHANGED <<config, side, pageNum, cat, gap, browser, closeCalls, acc, geo, reqs,
                   result>>

\* A close that sits at the end of the try block instead of in finally: it
\* is skipped when a start-up call threw.
CloseBrowserInTry ==
    /\ pc = "finally"
    /\ IF browser = "open" /\ failure = "none"
       THEN browser' = "closed" /\ closeCalls' = closeCalls + 1
       ELSE UNCHANGED <<browser, closeCalls>>
    /\ pc' = "geocode"
    /\ preGeo' = allListings
    /\ UNCHANGED <<config, side, pageNum, cat, gap, failure, acc, needGeocode, geoIdx,
                   inFlight, geoSlept, geoCalls, reqs, result>>

\* finally { if (browser) { try { await browser.close(); } catch {} } }
CloseBrowser ==
    /\ pc = "finally"
    /\ IF browser = "open"
       THEN browser' = "closed" /\ closeCalls' = closeCalls + 1
       ELSE UNCHANGED <<browser, closeCalls>>
    /\ pc' = "geocode"
    /\ preGeo' = allListings
    /\ UNCHANGED <<config, side, pageNum, cat, gap, failure, acc, needGeocode, geoIdx,
                   inFlight, geoSlept, geoCalls, reqs, result>>

\* -------------------------------------------------------------- page loop

\* A loop that starts the requests of all remaining pages before it awaits
\* the first of them.
RequestAllAtOnce ==
    /\ pc = "loop" /\ pageNum <= pages
    /\ requested' = requested \o [i \in 1..(pages - pageNum + 1) |->
                                    pageNum + i - 1]
    /\ outstanding' = outstanding + (pages - pageNum + 1)
    /\ outcome' = "pending"
    /\ slept' = 0
    /\ gap' = FALSE
    /\ pc' = "fetching"
    /\ UNCHANGED <<config, side, pageNum, cat, brw, acc, geo, result>>

\* await page.goto(url) / await axios.get(url) for page pageNum: the run is
\* suspended until the request resolves or rejects.
Request ==
    /\ pc = "loop" /\ pageNum <= pages
    /\ requested' = Append(requested, pageNum)
    /\ outstanding' = outstanding + 1
    /\ outcome' = "pending"
    /\ slept' = 0
    /\ gap' = FALSE
    /\ pc' = "fetching"
    /\ UNCHANGED <<config, side, pageNum, cat, brw, acc, geo, result>>

\* A page failure that leaves the page loop, as with the try around the loop.
SkipPageBreak(how) ==
    /\ outcome' = how
    /\ pageNum' = pages + 1
    /\ pc' = "loop"
    /\ cat' = 0
    /\ UNCHANGED <<config, side, gap, brw, acc, geo, requested, slept, result>>

\* The page body ends without reaching its rate-limit sleep: `continue`, or
\* the per-page catch.  The for statement increments the counter.
SkipPage(how) ==
    /\ outcome' = how
    /\ pageNum' = pageNum + 1
    /\ pc' = "loop"
    /\ cat' = 0
    /\ UNCHANGED <<config, side, gap, brw, acc, geo, requested, slept, result>>

\* The request rejects (network error, timeout, HTTP error status).
FetchError ==
    /\ pc = "fetching"
    /\ outstanding' = outstanding - 1
    /\ SkipPage("error")

\* The request resolves with a document; the feed is extracted from it.
FetchDoc(doc) ==
    /\ pc = "fetching"
    /\ outstanding' = outstanding - 1
    /\ LET r == extractFeed(variant, doc) IN
       IF IsFeedData(r)
       THEN /\ pc' = "process"
            /\ cat' = 0
            /\ outcome' = "feed"
            /\ UNCHANGED <<config, side, pageNum, gap, brw, acc, geo, requested,
                           slept, result>>
       ELSE SkipPage(IF r = "throw" THEN "error" ELSE "nofeed")

\* A gate that lets every item with a token through.
skipItemNoSeen(item) == ~TruthyStr(item.token)

\* if (!item.token || seenTokens.has(item.token)) continue;
skipItem(item) == ~TruthyStr(item.token) \/ item.token \in seenTokens

\* A gate that records a token only once a listing was built from it.
addSeenIfListed(item) ==
    IF feedItemToListing(variant, item) # NoListing
    THEN seenTokens \cup {item.token}
    ELSE seenTokens

\* seenTokens.add(item.token), before the item is normalized.
addSeen(item) == seenTokens \cup {item.token}

\* An accumulator that puts the newest listing first.
unshiftListing(ls, listing) == <<listing>> \o ls

\* allListings.push(listing)
pushListing(ls, listing) == Append(ls, listing)

\* One iteration of the inner loop, on the next item of feed[categories[cat]].
ProcessItem(item) ==
    /\ pc = "process" /\ cat \in 1..Len(categories)
    /\ IF skipItem(item)
       THEN UNCHANGED <<allListings, seenTokens>>
       ELSE /\ seenTokens' = addSeen(item)
            /\ LET listing == feedItemToListing(variant, item) IN
               allListings' = IF listing # NoListing
                              THEN pushListing(allListings, listing)
                              ELSE allListings
    /\ IF item.token \in Tokens
       THEN /\ firstBuilt' = IF occ[item.token] = 0
                             THEN [firstBuilt EXCEPT ![item.token] =
                                      feedItemToListing(variant, item)]
                             ELSE firstBuilt
            /\ occ' = [occ EXCEPT ![item.token] =
                          IF @ < 2 THEN @ + 1 ELSE @]
       ELSE UNCHANGED <<firstBuilt, occ>>
    /\ UNCHANGED <<config, side, pc, pageNum, cat, gap, brw, geo, reqs, result>>

\* The next element of the bucket is null or undefined: item.token throws,
\* and the per-page catch ends the page.
ItemThrows ==
    /\ pc = "process" /\ cat \in 1..Len(categories)
    /\ UNCHANGED outstanding
    /\ SkipPage("error")

\* What feed[cat] can be when it is not an array: the key is absent
\* (undefined), the key is there under another name only, or its value is
\* null, an object, a string or a number.
NotArrays == {"absent", "renamed", "notArray"}

\* A loop over the buckets that iterates feed[cat] without looking at what it
\* is: a bucket that is not an array throws, and the per-page catch ends the
\* page.
NextBucketUnchecked(to, shape) ==
    /\ pc = "process" /\ cat <= Len(categories)
    /\ to \in (cat + 1)..(Len(categories) + 1)
    /\ IF to > cat + 1
       THEN /\ gap' = TRUE
            /\ outcome' = "error"
            /\ pageNum' = pageNum + 1
            /\ pc' = "loop"
            /\ cat' = 0
            /\ UNCHANGED <<config, side, brw, acc, geo, requested, slept,
                           outstanding, result>>
       ELSE /\ cat' = to
            /\ UNCHANGED <<config, side, pc, pageNum, gap, brw, acc, geo, reqs,
                           result>>

\* The loop over categories moves on from bucket cat (from before the first
\* bucket when cat = 0), whose items are exhausted, to the next bucket that
\* is an array, categories[to], or past the last one.  Every bucket in
\* between has the given shape and is passed over by
\*     if (!Array.isArray(items)) continue;
\* Keys of the feed that are not in categories are never read.
NextBucket(to, shape) ==
    /\ pc = "process" /\ cat <= Len(categories)
    /\ to \in (cat + 1)..(Len(categories) + 1)
    /\ cat' = to
    /\ gap' = (gap \/ to > cat + 1)
    /\ UNCHANGED <<config, side, pc, pageNum, brw, acc, geo, reqs, result>>

\* All categories done: the rate-limit sleep unless this is the last page.
EndPage ==
    /\ pc = "process" /\ cat > Len(categories)
    /\ slept' = IF pageNum < pages THEN slept + InterPageDelay(variant)
                ELSE slept
    /\ pageNum' = pageNum + 1
    /\ pc' = "loop"
    /\ cat' = 0
    /\ UNCHANGED <<config, side, gap, brw, acc, geo, requested, outcome,
                   outstanding, result>>

\* The page loop ends: the browser variant leaves its try block.
LoopExit ==
    /\ pc = "loop" /\ pageNum > pages
    /\ IF variant = "browser"
       THEN pc' = "finally" /\ UNCHANGED preGeo
       ELSE pc' = "geocode" /\ preGeo' = allListings
    /\ UNCHANGED <<config, side, pageNum, cat, gap, brw, acc, needGeocode, geoIdx,
                   inFlight, geoSlept, geoCalls, reqs, result>>

\* ----------------------------------------------------------- geocode pass

\* A pass that runs whatever the geocode option says.
GeocodeStartAlways ==
    /\ pc = "geocode"
    /\ LET need == FilterIdx(allListings, 1) IN
       IF Len(need) > 0
       THEN /\ needGeocode' = need
            /\ geoIdx' = 1
            /\ pc' = "geoLoop"
            /\ UNCHANGED result
       ELSE /\ pc' = "done"
            /\ result' = "returned"
            /\ UNCHANGED <<needGeocode, geoIdx>>
    /\ UNCHANGED <<config, side, pageNum, cat, gap, brw, acc, preGeo, inFlight,
                   geoSlept, geoCalls, reqs>>

\* if (geocode) { needGeocode = ...; if (needGeocode.length > 0) ... }
GeocodeStart ==
    /\ pc = "geocode"
    /\ LET need == FilterIdx(allListings, 1) IN
       IF geocode /\ Len(need) > 0
       THEN /\ needGeocode' = need
            /\ geoIdx' = 1
            /\ pc' = "geoLoop"
            /\ UNCHANGED result
       ELSE /\ pc' = "done"
            /\ result' = "returned"
            /\ UNCHANGED <<needGeocode, geoIdx>>
    /\ UNCHANGED <<config, side, pageNum, cat, gap, brw, acc, preGeo, inFlight, geoSlept,
                   geoCalls, reqs>>

\* await geocodeAddress(...) is issued for the next listing of needGeocode.
GeoCall ==
    /\ pc = "geoLoop" /\ geoIdx <= Len(needGeocode)
    /\ inFlight' = inFlight + 1
    /\ geoCalls' = Append(geoCalls, [listing |-> needGeocode[geoIdx],
                                     slept |-> geoSlept,
                                     found |-> FALSE])
    /\ geoSlept' = 0
    /\ pc' = "geoAwait"
    /\ UNCHANGED <<config, side, pageNum, cat, gap, brw, acc, needGeocode, geoIdx, preGeo,
                   reqs, result>>

\* A pass that gives up at the first listing the geocoder cannot place.
GeoReturnBreak(coords) ==
    /\ pc = "geoAwait"
    /\ inFlight' = inFlight - 1
    /\ LET i == needGeocode[geoIdx] IN
       allListings' = IF coords # NoResult
                      THEN [allListings EXCEPT ![i].lat = coords.lat,
                                               ![i].lng = coords.lng]
                      ELSE allListings
    /\ geoCalls' = [geoCalls EXCEPT ![Len(geoCalls)].found = coords # NoResult]
    /\ geoSlept' = geoSlept + GeocodeDelay
    /\ geoIdx' = IF coords # NoResult THEN geoIdx + 1
                 ELSE Len(needGeocode) + 1
    /\ pc' = "geoLoop"
    /\ UNCHANGED <<config, side, pageNum, cat, gap, brw, seenTokens, firstBuilt, occ,
                   needGeocode, preGeo, reqs, result>>

\* The call resolves with coords; the listing is updated when coords is not
\* null, and the loop sleeps before its next iteration.
GeoReturn(coords) ==
    /\ pc = "geoAwait"
    /\ inFlight' = inFlight - 1
    /\ LET i == needGeocode[geoIdx] IN
       allListings' = IF coords # NoResult
                      THEN [allListings EXCEPT ![i].lat = coords.lat,
                                               ![i].lng = coords.lng]
                      ELSE allListings
    /\ geoCalls' = [geoCalls EXCEPT ![Len(geoCalls)].found = coords # NoResult]
    /\ geoSlept' = geoSlept + GeocodeDelay
    /\ geoIdx' = geoIdx + 1
    /\ pc' = "geoLoop"
    /\ UNCHANGED <<config, side, pageNum, cat, gap, brw, seenTokens, firstBuilt, occ,
                   needGeocode, preGeo, reqs, result>>

\* The awaited call rejects: the loop's own catch logs and goes on to the next
\* listing without the sleep.  (geocodeAddress catches its providers' errors
\* and resolves to null; this is the handler for anything it lets through.)
GeoThrows ==
    /\ pc = "geoAwait"
    /\ inFlight' = inFlight - 1
    /\ geoIdx' = geoIdx + 1
    /\ pc' = "geoLoop"
    /\ UNCHANGED <<config, side, pageNum, cat, gap, brw, acc, needGeocode, preGeo,
                   geoSlept, geoCalls, reqs, result>>

\* needGeocode is exhausted: the run returns allListings.
GeoDone ==
    /\ pc = "geoLoop" /\ geoIdx > Len(needGeocode)
    /\ pc' = "done"
    /\ result' = "returned"
    /\ UNCHANGED <<config, side, pageNum, cat, gap, brw, acc, geo, reqs>>

\* ---------------------------------------------------------- specification

Next ==
    \/ StartHttp
    \/ \E found \in BOOLEAN : FindChrome(found)
    \/ \E ok \in BOOLEAN : Launch(ok)
    \/ \E failed \in SetupSteps \cup {"none"} : SetupPage(failed)
    \/ CloseBrowser
    \/ Request
    \/ FetchError
    \/ \E doc \in Docs : FetchDoc(doc)
    \/ \E item \in RawItems : ProcessItem(item)
    \/ ItemThrows
    \/ \E to \in 1..(Len(categories) + 1), shape \in NotArrays :
          NextBucket(to, shape)
    \/ EndPage
    \/ LoopExit
    \/ GeocodeStart
    \/ GeoCall
    \/ \E coords \in GeoResults : GeoReturn(coords)
    \/ GeoThrows
    \/ GeoDone

Spec == Init /\ [][Next]_vars

\* ----------------------------------------------------------------- claims

\* The positions of a run after its page loop (and its finally block).
GeoPcs == {"geocode", "geoLoop", "geoAwait", "done"}

Positions(ls) == 1..Len(ls)

\* The positions of the listings built from token t.
WithToken(ls, t) == {i \in Positions(ls) : ls[i].source_id = t}

\* l and m agree on every field but the coordinates.
SameButCoords(l, m) ==
    [l EXCEPT !.lat = None, !.lng = None] = [m EXCEPT !.lat = None, !.lng = None]

\* C1 (as claimed): feedItemToListing returns no listing for an item with a
\* missing or non-positive price, a missing or non-positive room count or an
\* empty derived address, in both variants, so that every accumulated listing
\* has a non-empty address, price > 0 and rooms > 0.
C1_OnlyValidListings ==
    \A i \in Positions(allListings) :
       /\ allListings[i].address # ""
       /\ allListings[i].price > 0
       /\ allListings[i].rooms > 0

\* No two accumulated listings share a token or an id, and the token of every
\* accumulated listing is in the seen-token set.
TokensUnique ==
    /\ \A i, j \in Positions(allListings) :
          i # j => /\ allListings[i].source_id # allListings[j].source_id
                   /\ allListings[i].id # allListings[j].id
    /\ \A i \in Positions(allListings) : allListings[i].source_id \in seenTokens

\* C2: in every state of a run no two accumulated listings have the same
\* token (or id) and every accumulated listing's token is in the seen-token
\* set; every step of the run keeps or grows the seen-token set.
C2_UniqueTokens ==
    TokensUnique /\ [][TokensUnique' /\ seenTokens \subseteq seenTokens']_vars

\* C2's case: a token was read a second time, on a later page, while both
\* tokens have a listing.
C2_Witness ==
    /\ Len(allListings) = 2
    /\ pageNum = 2 /\ pc = "process"
    /\ \E t \in Tokens : occ[t] = 2

\* The listing at position i is the one built from the first item read with
\* token t (the geocode pass may since have set its coordinates).
BuiltFromFirst(i, t) ==
    /\ firstBuilt[t] # NoListing
    /\ IF pc \in GeoPcs
       THEN SameButCoords(allListings[i], firstBuilt[t])
       ELSE allListings[i] = firstBuilt[t]

\* C3 (as claimed): a token read more than once has exactly one listing, the
\* one built from its first occurrence.
C3_ExactlyOneFromFirst ==
    \A t \in Tokens :
       occ[t] = 2 =>
          /\ Cardinality(WithToken(allListings, t)) = 1
          /\ \A i \in WithToken(allListings, t) : BuiltFromFirst(i, t)

\* C3 (amended): a token read more than once has exactly one listing, built
\* from its first occurrence, when feedItemToListing accepts that first
\* occurrence, and has no listing at all when it rejects it.
C3_FirstOccurrenceDecides ==
    \A t \in Tokens :
       occ[t] = 2 =>
          IF firstBuilt[t] = NoListing
          THEN WithToken(allListings, t) = {}
          ELSE /\ Cardinality(WithToken(allListings, t)) = 1
               /\ \A i \in WithToken(allListings, t) : BuiltFromFirst(i, t)

\* C3's case: both tokens were read twice; the first occurrence of one was
\* accepted and that of the other rejected.
C3_Witness ==
    /\ \A t \in Tokens : occ[t] = 2
    /\ \E t \in Tokens : firstBuilt[t] = NoListing
    /\ \E t \in Tokens : firstBuilt[t] # NoListing
    /\ Len(allListings) = 1

\* The page numbers requested so far are 1, 2, ... in this order, each once,
\* none beyond `pages`; a run that got past the browser start-up and has
\* returned requested all of 1..pages.
RequestedInOrder ==
    /\ requested = [i \in 1..Len(requested) |-> i]
    /\ Len(requested) <= pages
    /\ pc \in {"loop", "fetching", "process"} =>
          Len(requested) \in {pageNum - 1, pageNum}
    /\ result = "returned" /\ failure = "none" => Len(requested) = pages

\* C4: when the request for a page ends in a page-level failure (the request
\* rejects, or no feed is extracted from the document) the run goes on: the
\* accumulator is unchanged, the run has no result yet and the loop moves to
\* the next page; pages 1..N are requested once each, in ascending order.
C4_PageFailureSkipsPage ==
    /\ RequestedInOrder
    /\ [][/\ RequestedInOrder'
          /\ (pc = "fetching" /\ outcome' \in {"error", "nofeed"}) =>
                /\ allListings' = allListings
                /\ seenTokens' = seenTokens
                /\ result' = "pending"
                /\ pc' = "loop" /\ pageNum' = pageNum + 1]_vars

\* C4's case: page 1 delivered a listing, page 2 failed, and the run returned
\* the listing of page 1.
C4_Witness ==
    /\ result = "returned"
    /\ requested = <<1, 2>>
    /\ outcome \in {"error", "nofeed"}
    /\ Len(allListings) >= 1

LaunchFailures == {"findChromePath", "launch", "newPage"}

\* C5 (as claimed): a run whose browser could not be launched (no Chrome
\* executable, puppeteer.launch or newPage failing) rejects and never
\* returns a listing array; a run rejects for no other reason.
C5_LaunchFailureRejects ==
    /\ failure \in LaunchFailures => result # "returned"
    /\ result = "rejected" => failure \in LaunchFailures

\* C6: browser.close() is called at most once, exactly once by the time a run
\* with a launched browser returns or rejects, whatever failed in between,
\* and once the browser is closed the run is past its page loop.
C6_BrowserClosedOnce ==
    /\ closeCalls <= 1
    /\ closeCalls = 1 <=> browser = "closed"
    /\ (browser # "null" /\ (result # "pending" \/ pc \in GeoPcs)) =>
          browser = "closed"
    /\ browser = "closed" => pc \in GeoPcs
    /\ pc \in {"setup", "loop", "fetching", "process"} /\ variant = "browser" =>
          browser = "open"

\* C6's case: setViewport threw after a successful launch, and the run has
\* returned with the browser closed once.
C6_Witness ==
    /\ result = "returned"
    /\ failure = "setViewport"
    /\ closeCalls = 1

\* C7 (as claimed): a lat or lng that was set before the geocode pass has the
\* same value after it.
C7_SetValuesKept ==
    \A i \in Positions(preGeo) :
       /\ preGeo[i].lat # None => allListings[i].lat = preGeo[i].lat
       /\ preGeo[i].lng # None => allListings[i].lng = preGeo[i].lng

\* C7 (amended): the geocode pass changes nothing but lat and lng, and a
\* listing that had both lat and lng before the pass keeps both.
C7_CompletePairsKept ==
    pc \in GeoPcs =>
       /\ Len(allListings) = Len(preGeo)
       /\ \A i \in Positions(preGeo) :
             /\ SameButCoords(allListings[i], preGeo[i])
             /\ (preGeo[i].lat # None /\ preGeo[i].lng # None) =>
                   allListings[i] = preGeo[i]

\* C7's case: the pass is over; it left a listing with both coordinates alone
\* and set the coordinates of another.
C7_Witness ==
    /\ result = "returned"
    /\ \E i \in Positions(preGeo) :
          /\ preGeo[i].lat # None /\ preGeo[i].lng # None
          /\ allListings[i] = preGeo[i]
    /\ \E i \in Positions(preGeo) : allListings[i] # preGeo[i]

\* The geocoder calls that have resolved.
Resolved == {k \in Positions(geoCalls) : k < Len(geoCalls) \/ pc # "geoAwait"}

\* C8: a geocoder call that finds nothing leaves its listing's lat and lng as
\* they were; the pass still calls the geocoder for every listing that lacked
\* a coordinate, in order, and the run returns the whole accumulator.
C8_GeocodeFailureContinues ==
    /\ \A k \in Resolved :
          ~geoCalls[k].found =>
             /\ allListings[geoCalls[k].listing].lat = preGeo[geoCalls[k].listing].lat
             /\ allListings[geoCalls[k].listing].lng = preGeo[geoCalls[k].listing].lng
    /\ \A k \in Positions(geoCalls) :
          geoCalls[k].listing = FilterIdx(preGeo, 1)[k]
    /\ result = "returned" =>
          /\ Len(allListings) = Len(preGeo)
          /\ geocode => Len(geoCalls) = Len(FilterIdx(preGeo, 1))
    /\ pc \in GeoPcs \ {"done"} => result = "pending"
    /\ result = "rejected" => geoCalls = <<>>

\* C8's case: the first geocoder call found nothing, the second one set the
\* coordinates of the next listing, and the run returned both listings.
C8_Witness ==
    /\ result = "returned"
    /\ Len(allListings) = 2
    /\ Len(geoCalls) = 2
    /\ ~geoCalls[1].found /\ geoCalls[2].found
    /\ NeedsGeocode(allListings[1]) /\ ~NeedsGeocode(allListings[2])

\* The least delay between calls the claim gives for the active provider.
ProviderMinDelay == IF googleApiKey THEN 100 ELSE 1000

\* C9 (as claimed): at most one geocoder call is in flight, and before every
\* call but the first the pass has slept at least the active provider's
\* minimum: 100 ms with the Google key set, 1000 ms with Nominatim.
C9_GeocodeRateLimit ==
    /\ inFlight <= 1
    /\ \A k \in Positions(geoCalls) :
          k > 1 => geoCalls[k].slept >= ProviderMinDelay

\* C10 (as claimed): every page request after the first is preceded by the
\* variant's inter-page sleep, however the page before it ended, and no
\* sleep follows the last page.
C10_InterPageDelay ==
    [][/\ (requested' # requested /\ pageNum > 1) =>
             slept >= InterPageDelay(variant)
       /\ (pc = "process" /\ pageNum = pages) => slept' = slept]_vars

\* The page loop's cursor never moves backwards: the page number grows, and
\* within a page the bucket index grows.
CursorAdvances ==
    \/ pageNum' > pageNum
    \/ pageNum' = pageNum /\ cat' >= cat

\* allListings changes only by a push at its end, made while a bucket of the
\* current page is iterated, or by the geocode pass filling coordinates in
\* place.
AppendedOrGeocoded ==
    \/ allListings' = allListings
    \/ /\ pc = "process" /\ pageNum \in 1..pages /\ cat \in 1..Len(categories)
       /\ Len(allListings') = Len(allListings) + 1
       /\ SubSeq(allListings', 1, Len(allListings)) = allListings
    \/ /\ pc = "geoAwait"
       /\ Len(allListings') = Len(allListings)
       /\ \A i \in Positions(allListings) :
             SameButCoords(allListings[i], allListings'[i])

\* C11: the buckets are read in the order private, agency, yad1, platinum,
\* trio, booster, leadingBroker, kingOfTheHar; a listing is only ever pushed
\* at the end of the accumulator, while the bucket under the cursor (page,
\* bucket) is iterated, and the cursor only advances; no step reorders or
\* removes a listing.  Hence the returned listings are in page order, then
\* bucket order, then position in the bucket.
C11_AppendOnlyInFeedOrder ==
    /\ categories = <<"private", "agency", "yad1", "platinum",
                      "trio", "booster", "leadingBroker", "kingOfTheHar">>
    /\ [][AppendedOrGeocoded /\ CursorAdvances]_vars

\* A run over two pages returned two listings, after a geocoder call.
C11_Witness ==
    /\ result = "returned"
    /\ Len(allListings) = 2
    /\ Len(requested) = 2
    /\ geoCalls # <<>>

\* A page is left only when its last bucket is exhausted, or when it is
\* given up: the request failed, no feed was found, or an item threw.
PageLeftWhenDone ==
    (pageNum' # pageNum) =>
       \/ pc = "process" /\ cat > Len(categories)
       \/ outcome' \in {"error", "nofeed"}

\* C12: at most one page request is outstanding at any time, and a page is
\* requested only when no request is outstanding and the page before it was
\* either read to the end of its last bucket or given up as failed.
C12_OnePageAtATime ==
    /\ [](outstanding <= 1)
    /\ []((outstanding = 1) = (pc = "fetching"))
    /\ [][/\ (requested' # requested) =>
                /\ outstanding = 0
                /\ pc = "loop" /\ cat = 0
                /\ requested' = Append(requested, pageNum)
                /\ requested = <<>> \/ outcome \in {"feed", "error", "nofeed"}
          /\ PageLeftWhenDone]_vars

\* The request of page 2 is outstanding, after page 1 gave at least one
\* listing.
C12_Witness ==
    /\ outstanding = 1
    /\ Len(requested) = 2
    /\ Len(allListings) >= 1

\* C13: a known bucket that is absent, renamed or not an array is passed over
\* as if it were empty: the step raises nothing (the page stays in processing
\* with outcome "feed", the run stays pending), changes neither the
\* accumulator nor the seen-token set, and leaves the loop at the next known
\* bucket or at the end of the page; and a listing is only ever pushed while
\* one of the eight known buckets is iterated, so a bucket under any other
\* name contributes nothing.
C13_MissingBucketIsEmpty ==
    [][/\ (gap' /\ ~gap) =>
             /\ pc = "process" /\ pc' = "process"
             /\ outcome' = "feed"
             /\ result' = "pending"
             /\ pageNum' = pageNum
             /\ cat' \in (cat + 2)..(Len(categories) + 1)
             /\ acc' = acc
       /\ (gap /\ pc = "process" /\ pc' = "loop" /\ outcome' = "feed") =>
             cat = Len(categories) + 1
       /\ (Len(allListings') > Len(allListings)) =>
             /\ cat \in 1..Len(categories)
             /\ \E item \in RawItems : ProcessItem(item)]_vars

\* The first page had a bucket that was not an array, was read to the end of
\* its last bucket without error, and gave a listing.
C13_Witness ==
    /\ gap
    /\ pc = "loop" /\ pageNum = 2
    /\ outcome = "feed"
    /\ Len(allListings) >= 1

\* Every geocoder call so far was made after the page loop had handled its
\* last page, with the geocode option on, and no listing was sent twice.
GeocodedOnceAfterLoop ==
    /\ (geoCalls # <<>> \/ inFlight > 0) =>
          /\ geocode
          /\ pc \in GeoPcs
          /\ pageNum = pages + 1 /\ Len(requested) = pages
    /\ inFlight = IF pc = "geoAwait" THEN 1 ELSE 0
    /\ \A i, j \in Positions(geoCalls) :
          i # j => geoCalls[i].listing # geoCalls[j].listing
    /\ \A i \in Positions(geoCalls) :
          geoCalls[i].listing \in Positions(allListings)

\* C17: the geocoder is called only after the last page of the page loop was
\* handled, only when the geocode option is on, and at most once per listing;
\* once a call was made no page is requested any more; with the option off
\* no call is made and the returned listings carry the coordinates they got
\* from feedItemToListing.
C17_GeocodeAfterLoopOnce ==
    /\ [](GeocodedOnceAfterLoop)
    /\ [](~geocode => /\ geoCalls = <<>> /\ inFlight = 0
                      /\ (pc \in GeoPcs => allListings = preGeo))
    /\ [][/\ (geoCalls' # geoCalls) => (pc \in {"geoLoop", "geoAwait"})
          /\ (geoCalls # <<>>) =>
                /\ requested' = requested
                /\ (acc' # acc) => (pc = "geoAwait")
          /\ (~geocode /\ Len(allListings') = Len(allListings)) =>
                allListings' = allListings]_vars

\* A run with the option on returned two listings after one geocoder call for
\* each.
C17_Witness ==
    /\ geocode
    /\ result = "returned"
    /\ Len(geoCalls) = 2
    /\ geoCalls[1].listing # geoCalls[2].listing

\* ------------------------------------------------ page-state extraction

\* The extractor of the run's variant is applied to a document.
Extract ==
    /\ xres = "none"
    /\ xres' = extractFeed(variant, xdoc)
    /\ UNCHANGED <<run, client, post, query, bucket, xdoc, gate, calls, store, building>>

InitExtract ==
    /\ InitRun
    /\ ClientIdle
    /\ PostIdle
    /\ QueryIdle
    /\ BucketIdle
    /\ pages = 1 /\ ~geocode /\ ~googleApiKey
    /\ xdoc \in Documents
    /\ xres = "none"
    /\ GateIdle
    /\ CallsIdle
    /\ StoreIdle
    /\ BuildingIdle

NextExtract == Extract

SpecExtract == InitExtract /\ [][NextExtract]_vars

\* The positions of the queries whose key has the feed marker.
FeedQueries(qs) ==
    {i \in 1..Len(qs) : qs[i].kind = "object"
                        /\ KeyIncludesMarker(qs[i].queryKey)}

\* The first position of a non-empty set of positions.
First(S) == CHOOSE i \in S : \A j \in S : i <= j

\* What the page-state extractor is to return for a document: the data of the
\* first feed query, null when there is none, when a null entry comes before
\* it, when it has no data, or when the document is not well formed.
ClaimedFeed(doc) ==
    IF ~doc.marker \/ doc.closed # "closed" \/ doc.json.kind # "queries"
    THEN "null"
    ELSE LET qs == doc.json.qs IN
         IF FeedQueries(qs) = {} THEN "null"
         ELSE LET i == First(FeedQueries(qs)) IN
              IF \E j \in 1..(i - 1) : qs[j].kind = "null" THEN "null"
              ELSE IF qs[i].state = None THEN "null"
              ELSE IF IsFeedData(qs[i].state[1]) THEN qs[i].state[1]
              ELSE "null"

\* undefined counts as null: the callers only test the result's truthiness.
AsNull(r) == IF r = "undefined" THEN "null" ELSE r

\* C14 (as claimed): the page-state extractor never raises: for a document
\* without the element or its closing tag, with malformed JSON, with a query
\* list that is missing or not an array, with a null entry, with an entry
\* without key or data, or without a feed query it returns null, and
\* otherwise the data of the query whose key contains the feed marker.
C14_ExtractorNeverRaises ==
    (xres # "none") =>
       /\ xres # "throw"
       /\ AsNull(xres) = ClaimedFeed(xdoc)

\* ----------------------------------------------------------- CaptchaGate
\* The gate of a browser session, after section 4.2 of the specification.

\* The interval between two checks of the challenge signals, in ms.
PollInterval == 2000

\* The wait window, in ms.
WaitWindow == 120000

CaptchaStates == {"None", "Detected", "WaitingForSolve", "Solved", "TimedOut"}

\* A session that keeps the state of the page before.
GatePageStartNoReset(challenged) ==
    /\ gpc = "page" /\ gpage <= pages
    /\ signal' = challenged
    /\ waited' = 0
    /\ gpc' = "navigated"
    /\ UNCHANGED <<run, client, post, query, bucket, extraction, calls, store, building, captcha, gpage, gres, challenges>>

\* The session starts a page: the state is reset to None and the page is
\* navigated to; `challenged` tells whether the rendered page shows a
\* challenge signal.
GatePageStart(challenged) ==
    /\ gpc = "page" /\ gpage <= pages
    /\ captcha' = "None"
    /\ signal' = challenged
    /\ waited' = 0
    /\ gpc' = "navigated"
    /\ UNCHANGED <<run, client, post, query, bucket, extraction, calls, store, building, gpage, gres, challenges>>

\* After navigation the rendered page is matched against the challenge
\* signals: None -> Detected on a match, on to the extraction otherwise.
GateCheck ==
    /\ gpc = "navigated"
    /\ IF signal
       THEN /\ captcha' = "Detected"
            /\ challenges' = challenges + 1
            /\ gpc' = "detected"
       ELSE /\ gpc' = "extract"
            /\ UNCHANGED <<captcha, challenges>>
    /\ UNCHANGED <<run, client, post, query, bucket, extraction, calls, store, building, signal, waited, gpage, gres>>

\* Detected -> WaitingForSolve, immediately: the operator is notified and the
\* pipeline suspends.
GateSuspend ==
    /\ gpc = "detected"
    /\ captcha' = "WaitingForSolve"
    /\ gpc' = "waiting"
    /\ UNCHANGED <<run, client, post, query, bucket, extraction, calls, store, building, signal, waited, gpage, gres, challenges>>

\* The operator solves the challenge while the gate waits.
OperatorSolves ==
    /\ gpc = "waiting" /\ signal
    /\ signal' = FALSE
    /\ UNCHANGED <<run, client, post, query, bucket, extraction, calls, store, building, captcha, waited, gpc, gpage, gres,
                   challenges>>

\* A gate that gives the page up when the window has passed and lets the
\* session go on with the next page.
GatePollSkipsPage ==
    /\ gpc = "waiting"
    /\ waited' = waited + PollInterval
    /\ IF ~signal
       THEN /\ captcha' = "Solved"
            /\ gpc' = "extract"
            /\ UNCHANGED <<gpage, gres>>
       ELSE IF waited' >= WaitWindow
       THEN /\ captcha' = "TimedOut"
            /\ gpc' = "page"
            /\ gpage' = gpage + 1
            /\ UNCHANGED gres
       ELSE UNCHANGED <<captcha, gpc, gpage, gres>>
    /\ UNCHANGED <<run, client, post, query, bucket, extraction, calls, store, building, signal, challenges>>

\* One poll: the gate sleeps for the interval and checks the signals again.
\* Signal gone: Solved, and the page's processing resumes.  Signal still
\* there with the window used up: TimedOut, and the run aborts.
GatePoll ==
    /\ gpc = "waiting"
    /\ waited' = waited + PollInterval
    /\ IF ~signal
       THEN /\ captcha' = "Solved"
            /\ gpc' = "extract"
            /\ UNCHANGED gres
       ELSE IF waited' >= WaitWindow
       THEN /\ captcha' = "TimedOut"
            /\ gpc' = "aborted"
            /\ gres' = "fatal"
       ELSE UNCHANGED <<captcha, gpc, gres>>
    /\ UNCHANGED <<run, client, post, query, bucket, extraction, calls, store, building, signal, gpage, challenges>>

\* The page is extracted and processed; the session goes on to the next.
GatePageDone ==
    /\ gpc = "extract"
    /\ gpage' = gpage + 1
    /\ gpc' = "page"
    /\ UNCHANGED <<run, client, post, query, bucket, extraction, calls, store, building, captcha, signal, waited, gres, challenges>>

\* All pages handled: the run returns.
GateReturn ==
    /\ gpc = "page" /\ gpage > pages
    /\ gpc' = "done"
    /\ gres' = "returned"
    /\ UNCHANGED <<run, client, post, query, bucket, extraction, calls, store, building, captcha, signal, waited, gpage,
                   challenges>>

\* A browser session about to handle its first page.
InitGate ==
    /\ InitRun
    /\ ClientIdle
    /\ PostIdle
    /\ QueryIdle
    /\ BucketIdle
    /\ variant = "browser" /\ ~geocode /\ ~googleApiKey
    /\ ExtractionIdle
    /\ CallsIdle
    /\ StoreIdle
    /\ BuildingIdle
    /\ captcha = "None"
    /\ signal = FALSE
    /\ waited = 0
    /\ gpc = "page"
    /\ gpage = 1
    /\ gres = "pending"
    /\ challenges = 0

NextGate ==
    \/ \E challenged \in BOOLEAN : GatePageStart(challenged)
    \/ GateCheck
    \/ GateSuspend
    \/ OperatorSolves
    \/ GatePoll
    \/ GatePageDone
    \/ GateReturn

SpecGate == InitGate /\ [][NextGate]_vars

\* C15: a challenge that is still there when the wait window (120 s, polled
\* every 2 s) is used up takes the gate to TimedOut and aborts the whole run
\* with a fatal error, after which nothing more happens; a challenge that is
\* gone at a poll within the window takes the gate to Solved and the page's
\* processing resumes.  Nothing else aborts the run.
C15_TimeoutAbortsSolvedResumes ==
    /\ PollInterval = 2000 /\ WaitWindow = 120000
    /\ []((captcha = "TimedOut") = (gres = "fatal"))
    /\ []((captcha = "TimedOut") => (signal /\ waited = WaitWindow))
    /\ []((captcha = "Solved") =>
             /\ ~signal /\ waited <= WaitWindow /\ gres # "fatal"
             /\ gpc \in {"extract", "page", "done"})
    /\ []((captcha = "WaitingForSolve") => waited < WaitWindow)
    /\ [][/\ (captcha = "WaitingForSolve" /\ waited' # waited) =>
                /\ waited' = waited + PollInterval
                /\ captcha' = IF ~signal THEN "Solved"
                              ELSE IF waited' >= WaitWindow THEN "TimedOut"
                              ELSE "WaitingForSolve"
                /\ (captcha' = "Solved") => (gpc' = "extract" /\ gpage' = gpage)
          /\ (gres = "fatal") => UNCHANGED gate]_vars

\* A session timed out on the challenge of its second page, after a first
\* page whose challenge was solved.
C15_Witness ==
    /\ captcha = "TimedOut" /\ gres = "fatal"
    /\ gpage = 2 /\ challenges = 2

\* The transitions of the captcha state within a page.
CaptchaMoves == {<<"None", "Detected">>,
                 <<"Detected", "WaitingForSolve">>,
                 <<"WaitingForSolve", "Solved">>,
                 <<"WaitingForSolve", "TimedOut">>}

\* C16: the captcha state changes only along None -> Detected ->
\* WaitingForSolve -> Solved or WaitingForSolve -> TimedOut, or by the reset
\* to None at the start of a page; every page starts with the state None, and
\* a challenge signal on the page navigated to is detected whatever happened
\* on earlier pages.
C16_CaptchaTransitions ==
    /\ [](captcha \in CaptchaStates)
    /\ []((gpc = "navigated") => (captcha = "None"))
    /\ [][/\ (captcha' # captcha) =>
                \/ <<captcha, captcha'>> \in CaptchaMoves
                \/ gpc = "page" /\ gpc' = "navigated" /\ captcha' = "None"
          /\ (gpc = "page" /\ gpc' = "navigated") => captcha' = "None"
          /\ (gpc = "navigated" /\ signal /\ gpc' # gpc) =>
                captcha' = "Detected"]_vars

\* On its second page the session detected a challenge again, having solved
\* one on the first page.
C16_Witness ==
    /\ gpage = 2
    /\ captcha = "Detected"
    /\ challenges = 2

\* ------------------------------------------------------ the listings table
\* insertListing, insertListings and deleteListing on the table `listings`.

\* The most calls made on the table.
MaxOps == 3

\* The most listings given to one insertListings call.
MaxBatch == 2

\* The object literals that build a Listing, by the named parameters of the
\* INSERT statement they have as own properties: "all" (every one of the 22),
\* "yad2" (feedItemToListing: no contact_name, contact_phone, entry_date,
\* available_date), "manual" (POST /listings: no source_id, entry_date).
Literals == {"all", "yad2", "manual"}

\* A listing handed to the database layer: its id, its price, lat (None when
\* the coordinates are unset), and the literal that built the object.
DbListing(id, price, lat) ==
    [id |-> id, price |-> price, lat |-> lat, keys |-> "all"]

\* The same listing as the object literal `literal` builds it.
BuiltBy(literal, listing) == [listing EXCEPT !.keys = literal]

DbListings == {DbListing(id, p, Some(31)) : id \in DbIds, p \in {4500, 5200}}
              \cup {BuiltBy("yad2", DbListing(id, 4500, Some(31))) :
                       id \in DbIds}

Batches == UNION {[1..n -> DbListings] : n \in 0..MaxBatch}

\* stmt.run(listing) binds every named parameter of the statement from the
\* own property of that name; it throws (RangeError: Missing named
\* parameter) when the object has no such property.
Bindable(listing) == listing.keys = "all"

\* A row as the statement writes it: the listing's values, updated_at from
\* datetime('now'), and created_at and is_active from the column defaults.
Row(listing, ts) == [values |-> listing, is_active |-> 1,
                     created_at |-> ts, updated_at |-> ts]

\* INSERT OR IGNORE: a row already there under the id is kept.
insertOrIgnore(table, listing, ts) ==
    IF \E r \in table : r.values.id = listing.id THEN table
    ELSE table \cup {Row(listing, ts)}

\* INSERT OR REPLACE on the primary key id: the row under the id, if any, is
\* deleted and the new row inserted.
insertOrReplace(table, listing, ts) ==
    {r \in table : r.values.id # listing.id} \cup {Row(listing, ts)}

\* The loop of the transaction function from item i on; ok is FALSE when a
\* statement threw.
RECURSIVE insertAll(_, _, _, _)
insertAll(st, items, i, ts) ==
    IF i > Len(items) THEN st
    ELSE IF ~Bindable(items[i]) THEN [st EXCEPT !.ok = FALSE]
    ELSE insertAll([ok |-> TRUE,
                    table |-> insertOrReplace(st.table, items[i], ts),
                    count |-> st.count + 1,
                    written |-> [st.written EXCEPT ![items[i].id] = items[i]]],
                   items, i + 1, ts)

\* insertListing(listing): one statement, in autocommit.
insertListing(listing) ==
    /\ now < MaxOps
    /\ now' = now + 1
    /\ given' = [n |-> 1, ids |-> {listing.id}]
    /\ IF Bindable(listing)
       THEN /\ rows' = insertOrReplace(rows, listing, now')
            /\ written' = [written EXCEPT ![listing.id] = listing]
            /\ dbret' = Returned("void", 0)
       ELSE /\ dbret' = Returned("throw", 0)
            /\ UNCHANGED <<rows, written>>
    /\ UNCHANGED <<run, client, post, query, bucket, extraction, gate, calls, building>>

\* insertListings(listings): the loop runs inside getDb().transaction(...),
\* which commits when the function returns and rolls back when it throws.
insertListings(listings) ==
    /\ now < MaxOps
    /\ now' = now + 1
    /\ given' = [n |-> Len(listings),
                 ids |-> {listings[i].id : i \in 1..Len(listings)}]
    /\ LET st == insertAll([ok |-> TRUE, table |-> rows, count |-> 0,
                            written |-> written], listings, 1, now') IN
       IF st.ok
       THEN /\ rows' = st.table
            /\ written' = st.written
            /\ dbret' = Returned("count", st.count)
       ELSE /\ dbret' = Returned("throw", 0)
            /\ UNCHANGED <<rows, written>>
    /\ UNCHANGED <<run, client, post, query, bucket, extraction, gate, calls, building>>

\* deleteListing(id): UPDATE listings SET is_active = 0 WHERE id = ?
deleteListing(id) ==
    /\ now < MaxOps
    /\ now' = now + 1
    /\ given' = [n |-> 0, ids |-> {}]
    /\ rows' = {IF r.values.id = id THEN [r EXCEPT !.is_active = 0] ELSE r :
                   r \in rows}
    /\ dbret' = Returned("void", 0)
    /\ UNCHANGED <<run, client, post, query, bucket, extraction, gate, calls, building, written>>

\* The table when the database file is created.
InitStore ==
    /\ InitRun
    /\ ClientIdle
    /\ PostIdle
    /\ QueryIdle
    /\ BucketIdle
    /\ pages = 1 /\ ~geocode /\ ~googleApiKey /\ variant = "http"
    /\ ExtractionIdle
    /\ GateIdle
    /\ CallsIdle
    /\ StoreIdle
    /\ BuildingIdle

NextStore ==
    \/ \E listing \in DbListings : insertListing(listing)
    \/ \E listings \in Batches : insertListings(listings)
    \/ \E id \in DbIds : deleteListing(id)

SpecStore == InitStore /\ [][NextStore]_vars

\* The rows of a table without their timestamps.
Untimed(table) == {[values |-> r.values, is_active |-> r.is_active] :
                      r \in table}

\* The table that insertListings leaves: that of insertAll when no statement
\* threw, the table as it was otherwise.
AfterBatch(table, items, ts) ==
    LET st == insertAll([ok |-> TRUE, table |-> table, count |-> 0,
                         written |-> written], items, 1, ts) IN
    IF st.ok THEN st.table ELSE table

\* The table holds at most one row per id, and the row of an id carries the
\* values of the last write that succeeded for it.
OneRowPerIdLastWrite ==
    /\ \A r1, r2 \in rows : (r1.values.id = r2.values.id) => (r1 = r2)
    /\ \A id \in DbIds :
          IF written[id] = NotWritten
          THEN \A r \in rows : r.values.id # id
          ELSE \E r \in rows : r.values = written[id]

\* Applying an upsert a second time changes nothing but timestamps.
UpsertIdempotent ==
    /\ \A listing \in {l \in DbListings : Bindable(l)} :
          Untimed(insertOrReplace(insertOrReplace(rows, listing, now + 1),
                                  listing, now + 2))
             = Untimed(insertOrReplace(rows, listing, now + 1))
    /\ \A items \in Batches :
          Untimed(AfterBatch(AfterBatch(rows, items, now + 1), items, now + 2))
             = Untimed(AfterBatch(rows, items, now + 1))

\* A call that returned a count was given that many listings and has
\* written a row, in this call, for every id among them.
CountIsAllWritten ==
    (dbret.kind = "count") =>
       /\ dbret.n = given.n
       /\ \A id \in given.ids :
             \E r \in rows : /\ r.values = written[id]
                             /\ r.updated_at = now
                             /\ r.is_active = 1

\* C19: after any sequence of insertListing / insertListings (and
\* deleteListing) calls the table holds at most one row per id, with the
\* values of the last successful write for that id; an upsert applied twice
\* leaves the rows that applying it once leaves, timestamps aside; and an
\* insertListings call returns the number of listings it was given, having
\* written all of them, or throws having written none.
C19_UpsertReplacesById ==
    /\ [](OneRowPerIdLastWrite)
    /\ [](UpsertIdempotent)
    /\ [](CountIsAllWritten)
    /\ [][/\ (dbret'.kind = "throw") => (rows' = rows /\ written' = written)
          /\ (dbret'.kind = "void" /\ given'.n = 1) =>
                \E r \in rows' : /\ r.values = written'[CHOOSE id \in given'.ids : TRUE]
                                 /\ r.updated_at = now']_vars

\* The table holds one row for "yad2_a", written three times, the last time
\* by a batch of two listings that was counted as 2.
C19_Witness ==
    /\ now = 3
    /\ dbret = Returned("count", 2)
    /\ \E r \in rows : /\ rows = {r}
                       /\ r.values = DbListing("yad2_a", 5200, Some(31))
                       /\ r.updated_at = 3

\* ------------------------------------------------------ overlapping calls
\* Two calls of scrapeYad2 started by two POST /scrape/yad2/sync requests.
\* A call runs without interruption between two awaits, so the items of one
\* page are read in one step; the calls interleave at the page requests.

\* The most items a page's feed carries, all buckets together.
MaxFeed == 2

\* Items with coordinates, so that the geocode pass of a call finds nothing
\* to do.
CallItems == {Item(t, p, Some(3), FullAddr, BothCoords) :
                 t \in Tokens, p \in {None, Some(4500)}}

\* The items of a page in bucket order.
Feeds == UNION {[1..n -> CallItems] : n \in 0..MaxFeed}

\* One seen-token set at module level, read by every call.
seenOfModule(r) == UNION {rseen[q] : q \in Runs}

\* const seenTokens = new Set<string>() inside scrapeYad2: the set the call
\* r reads is the one it created.
seenOf(r) == rseen[r]

\* The inner loops over a page's items, from item i on: the gate, the
\* normalization and the push, on the call's own set and accumulator.
RECURSIVE ReadFeed(_, _, _)
ReadFeed(st, feed, i) ==
    IF i > Len(feed) THEN st
    ELSE LET item == feed[i]
             listing == feedItemToListing(variant, item)
             first == IF st.first[item.token] = NotRead
                      THEN [st.first EXCEPT ![item.token] = listing]
                      ELSE st.first
         IN IF ~TruthyStr(item.token) \/ item.token \in st.seen
            THEN ReadFeed([st EXCEPT !.first = first], feed, i + 1)
            ELSE ReadFeed([seen |-> st.seen \cup {item.token},
                           acc |-> IF listing # NoListing
                                   THEN pushListing(st.acc, listing)
                                   ELSE st.acc,
                           first |-> first], feed, i + 1)

\* Call r requests its next page and is suspended.
CallRequest(r) ==
    /\ rpc[r] = "loop" /\ rpage[r] <= rpages[r]
    /\ rpc' = [rpc EXCEPT ![r] = "fetching"]
    /\ UNCHANGED <<run, client, post, query, bucket, extraction, gate, store, building, rpages, rpage, rseen, racc, rfirst, rstatus>>

\* The request of call r resolves with a page carrying `feed`; the call reads
\* the page and goes on to the next.
CallResponse(r, feed) ==
    /\ rpc[r] = "fetching"
    /\ LET st == ReadFeed([seen |-> seenOf(r), acc |-> racc[r],
                           first |-> rfirst[r]], feed, 1) IN
          /\ rseen' = [rseen EXCEPT ![r] = st.seen]
          /\ racc' = [racc EXCEPT ![r] = st.acc]
          /\ rfirst' = [rfirst EXCEPT ![r] = st.first]
    /\ rpage' = [rpage EXCEPT ![r] = @ + 1]
    /\ rpc' = [rpc EXCEPT ![r] = "loop"]
    /\ UNCHANGED <<run, client, post, query, bucket, extraction, gate, store, building, rpages, rstatus>>

\* The request of call r fails, or its page has no feed: the page is skipped.
CallPageFails(r) ==
    /\ rpc[r] = "fetching"
    /\ rpage' = [rpage EXCEPT ![r] = @ + 1]
    /\ rpc' = [rpc EXCEPT ![r] = "loop"]
    /\ UNCHANGED <<run, client, post, query, bucket, extraction, gate, store, building, rpages, rseen, racc, rfirst, rstatus>>

\* The Listing objects a call returns, as the route hands them to
\* insertListings: each is the object feedItemToListing built.
ScrapedListings(ls) ==
    [i \in 1..Len(ls) |->
        BuiltBy("yad2", DbListing(ls[i].id, ls[i].price, ls[i].lat))]

\* Call r is past its last page; no listing lacks a coordinate, and the call
\* returns its accumulator to the handler of POST /scrape/yad2/sync that
\* awaits it.  The handler gives a non-empty result to insertListings and
\* answers with the count, or with 500 when the insert throws; an empty
\* result is answered with count 0 and no call on the table.
CallReturns(r) ==
    /\ rpc[r] = "loop" /\ rpage[r] > rpages[r]
    /\ rpc' = [rpc EXCEPT ![r] = "done"]
    /\ IF Len(racc[r]) > 0
       THEN LET listings == ScrapedListings(racc[r])
                st == insertAll([ok |-> TRUE, table |-> rows, count |-> 0,
                                 written |-> written], listings, 1, now + 1)
            IN /\ now' = now + 1
               /\ given' = [n |-> Len(listings),
                            ids |-> {listings[i].id : i \in 1..Len(listings)}]
               /\ IF st.ok
                  THEN /\ rows' = st.table
                       /\ written' = st.written
                       /\ dbret' = Returned("count", st.count)
                       /\ rstatus' = [rstatus EXCEPT ![r] = 200]
                  ELSE /\ dbret' = Returned("throw", 0)
                       /\ rstatus' = [rstatus EXCEPT ![r] = 500]
                       /\ UNCHANGED <<rows, written>>
       ELSE /\ rstatus' = [rstatus EXCEPT ![r] = 200]
            /\ UNCHANGED store
    /\ UNCHANGED <<run, client, post, query, bucket, extraction, gate, building, rpages, rpage, rseen, racc, rfirst>>

\* Both calls have been made and neither has requested a page yet.
InitCalls ==
    /\ InitRun
    /\ ClientIdle
    /\ PostIdle
    /\ QueryIdle
    /\ BucketIdle
    /\ pages = 1 /\ ~geocode /\ ~googleApiKey
    /\ ExtractionIdle
    /\ GateIdle
    /\ StoreIdle
    /\ BuildingIdle
    /\ rpc = [r \in Runs |-> "loop"]
    /\ rpages \in [Runs -> 1..MaxPages]
    /\ rpage = [r \in Runs |-> 1]
    /\ rseen = [r \in Runs |-> {}]
    /\ racc = [r \in Runs |-> <<>>]
    /\ rfirst = [r \in Runs |-> [t \in Tokens |-> NotRead]]
    /\ rstatus = [r \in Runs |-> 0]

NextCalls ==
    \E r \in Runs :
       \/ CallRequest(r)
       \/ \E feed \in Feeds : CallResponse(r, feed)
       \/ CallPageFails(r)
       \/ CallReturns(r)

SpecCalls == InitCalls /\ [][NextCalls]_vars

\* The seen set and the accumulator of call r are what the items read by r
\* alone make them: a token is in the set iff r read an item with it, and the
\* accumulator holds the listing built from r's first item with the token,
\* once, or nothing for the token if that item was rejected or none was read.
OwnResult(r) ==
    \A t \in Tokens :
       /\ (t \in rseen[r]) = (rfirst[r][t] # NotRead)
       /\ IF rfirst[r][t] \notin {NotRead, NoListing}
          THEN \E i \in Positions(racc[r]) :
                  /\ racc[r][i] = rfirst[r][t]
                  /\ WithToken(racc[r], t) = {i}
          ELSE WithToken(racc[r], t) = {}

\* C18: when two calls of scrapeYad2 overlap, each has its own seen-token set
\* and accumulator: a step of one call leaves the set and the accumulator of
\* the other as they were, and what a call holds depends only on the items it
\* read itself, so a token seen by one call neither suppresses nor adds a
\* listing in the other.
C18_CallsOwnTheirState ==
    /\ [](\A r \in Runs : OwnResult(r))
    /\ [][\A r \in Runs :
             (rpc'[r] = rpc[r]) =>
                (rseen'[r] = rseen[r] /\ racc'[r] = racc[r])]_vars

\* While both calls are in their page loops, call 1 has seen token "a" in an
\* item it rejected and token "b" in one it accepted, and call 2 holds a
\* listing for "a" and none for "b".
C18_Witness ==
    /\ rpc[1] # "done" /\ rpc[2] = "fetching"
    /\ rseen[1] = {"a", "b"}
    /\ WithToken(racc[1], "a") = {} /\ WithToken(racc[1], "b") # {}
    /\ WithToken(racc[2], "a") # {} /\ WithToken(racc[2], "b") = {}

\* ------------------------------------------------------------ buildAddress

\* Addresses with every combination of parts present or absent; a house
\* number can also be 0.
AddrInputs == [street : {"", "Jaffa Street", "Hillel"},
               house : {None, Some(0), Some(7), Some(25)},
               neighborhood : {"", "Rehavia", "Talbiya"},
               city : {"", "Jerusalem"}]

\* buildAddress is called on the address.
BuildAddress ==
    /\ addrOut = "?"
    /\ addrOut' = buildAddress(addrIn)
    /\ UNCHANGED <<run, client, post, query, bucket, extraction, gate, calls, store, addrIn>>

InitAddress ==
    /\ InitRun
    /\ ClientIdle
    /\ PostIdle
    /\ QueryIdle
    /\ BucketIdle
    /\ pages = 1 /\ ~geocode /\ ~googleApiKey /\ variant = "http"
    /\ ExtractionIdle
    /\ GateIdle
    /\ CallsIdle
    /\ StoreIdle
    /\ addrIn \in AddrInputs
    /\ addrOut = "?"

NextAddress == BuildAddress

SpecAddress == InitAddress /\ [][NextAddress]_vars

\* The parts of an address that are there, in the order street, house
\* number, neighborhood, city; a text is there when it is not empty, the
\* house number when it is defined and not 0.
PartsPresent(addr) ==
    LET all == <<addr.street,
                 IF addr.house = None THEN "" ELSE
                    IF addr.house[1] = 0 THEN "" ELSE ToString(addr.house[1]),
                 addr.neighborhood,
                 addr.city>>
    IN SelectSeq(all, LAMBDA part : part # "")

\* The parts of a non-empty sequence, each after the first preceded by one
\* separator.
RECURSIVE Separated(_, _)
Separated(parts, n) ==
    IF n = 0 THEN ""
    ELSE IF n = 1 THEN parts[1]
    ELSE Separated(parts, n - 1) \o ", " \o parts[n]

\* C20: buildAddress returns the parts that are present, in the order street,
\* house number, neighborhood, city, each once, with exactly one ', ' between
\* two neighbours and none before the first or after the last, whichever
\* parts are missing (the empty string when all are); the full address gives
\* 'Jaffa Street, 25, Rehavia, Jerusalem', the one without street and house
\* number 'Rehavia, Jerusalem'.
C20_AddressJoinsPresentParts ==
    /\ buildAddress(FullAddr) = "Jaffa Street, 25, Rehavia, Jerusalem"
    /\ buildAddress([FullAddr EXCEPT !.street = "", !.house = None])
          = "Rehavia, Jerusalem"
    /\ [](addrOut # "?" =>
            LET parts == PartsPresent(addrIn) IN
            /\ addrOut = Separated(parts, Len(parts))
            /\ (parts = <<>>) = (addrOut = ""))

\* buildAddress has returned for an address with a street and a city but
\* neither house number nor neighborhood.
C20_Witness ==
    /\ addrIn = [street |-> "Hillel", house |-> None,
                 neighborhood |-> "", city |-> "Jerusalem"]
    /\ addrOut = "Hillel, Jerusalem"

\* ------------------------------------------- identifier and links of a token

\* The identifier and the links of a listing.
LinksOf(listing) ==
    <<listing.id, listing.source_id, listing.contact_info, listing.source_url>>

\* The listings either variant builds from the items with token t.
BuiltFrom(t) ==
    {feedItemToListing(v, item) :
        v \in Variants, item \in {r \in RawItems : r.token = t}}
    \ {NoListing}

\* C21: every accumulated listing of a token t has id 'yad2_' + t, source_id
\* t, and the same contact and source links as every listing that either
\* fetch variant builds from any item with token t; listings of different
\* tokens have different ids.
C21_LinksFromTokenAlone ==
    \A i \in Positions(allListings) :
       LET listing == allListings[i] IN
       /\ listing.id = "yad2_" \o listing.source_id
       /\ \A other \in BuiltFrom(listing.source_id) :
             LinksOf(other) = LinksOf(listing)
       /\ \A j \in Positions(allListings) :
             allListings[j].source_id # listing.source_id
                => allListings[j].id # listing.id

\* ------------------------------------------------- valid occurrences kept

\* A valid occurrence: a token, a non-empty address, price > 0, rooms > 0.
ValidOccurrence(item) ==
    /\ item.token \in Tokens
    /\ buildAddress(item.address) # ""
    /\ TruthyNum(item.price) /\ item.price[1] > 0
    /\ TruthyNum(item.rooms) /\ item.rooms[1] > 0

\* C23: when an iteration of the item loop has read a valid occurrence of a
\* token, in a known bucket of a fetched page, the accumulator holds a listing
\* of that token, whatever was read under the token before.
C23_ValidOccurrenceIsKept ==
    [][\A item \in RawItems :
          ProcessItem(item) /\ ValidOccurrence(item)
             => WithToken(allListings', item.token) # {}]_vars

\* ------------------------------------------------------ items with no token
\* The loop `for (const item of items)` over one bucket, one item per step.

\* The most items in the bucket.
MaxBucket == 3

\* Items with or without a token: valid, with price 0, or with no room count.
BucketItems == {Item(t, pr[1], pr[2], FullAddr, BothCoords) :
                   t \in Tokens \cup NoTokens,
                   pr \in {<<Some(0), Some(3)>>, <<Some(4500), Some(3)>>,
                           <<Some(4500), None>>}}

Buckets == UNION {[1..n -> BucketItems] : n \in 0..MaxBucket}

\* A gate without the token test.
skipsSeenOnly(seen, item) == item.token \in seen

\* if (!item.token || seenTokens.has(item.token)) continue;
skips(seen, item) == ~TruthyStr(item.token) \/ item.token \in seen

\* One iteration of the loop, on bitems[bidx].
BucketItem ==
    /\ bidx <= Len(bitems)
    /\ LET item == bitems[bidx]
           listing == feedItemToListing(variant, item)
       IN IF skips(bseen, item)
          THEN UNCHANGED <<bseen, bacc>>
          ELSE /\ bseen' = bseen \cup {item.token}
               /\ bacc' = IF listing # NoListing
                          THEN pushListing(bacc, listing)
                          ELSE bacc
    /\ bidx' = bidx + 1
    /\ UNCHANGED <<run, client, post, query, extraction, gate, calls, store, building, bitems>>

InitBucket ==
    /\ InitRun
    /\ ClientIdle
    /\ PostIdle
    /\ QueryIdle
    /\ pages = 1 /\ ~geocode /\ ~googleApiKey
    /\ ExtractionIdle
    /\ GateIdle
    /\ CallsIdle
    /\ StoreIdle
    /\ BuildingIdle
    /\ bitems \in Buckets
    /\ bidx = 1
    /\ bseen = {}
    /\ bacc = <<>>

NextBucketItem == BucketItem

SpecBucket == InitBucket /\ [][NextBucketItem]_vars

\* C26: an iteration on an item whose token is missing or empty changes
\* neither the accumulator nor the seen-token set, no listing of the
\* accumulator has an empty token, and the loop goes on to the next item of
\* the same bucket.
C26_NoTokenIsSkipped ==
    /\ [](\A i \in Positions(bacc) : bacc[i].source_id \notin NoTokens)
    /\ [](bseen \cap NoTokens = {})
    /\ [][bidx <= Len(bitems) /\ bitems[bidx].token \in NoTokens
             => /\ bacc' = bacc
                /\ bseen' = bseen
                /\ bitems' = bitems
                /\ bidx' = bidx + 1]_vars

\* The loop has read a valid item, an item without a token and a second
\* valid item, and holds the listings of the first and the third.
C26_Witness ==
    /\ Len(bitems) = 3 /\ bidx = 4
    /\ bitems[2].token = Undefined
    /\ bitems[2].price = Some(4500)
    /\ Len(bacc) = 2
    /\ bacc[1].source_id = bitems[1].token
    /\ bacc[2].source_id = bitems[3].token

\* ------------------------------------------------- the variants compared

\* The loop over the first n items of a bucket as variant v runs it, from an
\* empty set and accumulator.
RECURSIVE ReadItems(_, _, _)
ReadItems(v, items, n) ==
    IF n = 0 THEN [seen |-> {}, acc |-> <<>>]
    ELSE LET st == ReadItems(v, items, n - 1)
             item == items[n]
             listing == feedItemToListing(v, item)
         IN IF skips(st.seen, item) THEN st
            ELSE [seen |-> st.seen \cup {item.token},
                  acc |-> IF listing # NoListing
                          THEN pushListing(st.acc, listing)
                          ELSE st.acc]

\* Token, address, price, rooms and coordinates of each listing.
Compared(ls) ==
    [i \in Positions(ls) |->
        <<ls[i].source_id, ls[i].address, ls[i].price, ls[i].rooms,
          ls[i].lat, ls[i].lng>>]

\* C25: whatever variant runs the loop, its accumulator has the tokens,
\* addresses, prices, room counts and coordinates that either variant gets
\* from the same items.
C25_VariantsAgree ==
    \A v \in Variants :
       Compared(bacc) = Compared(ReadItems(v, bitems, bidx - 1).acc)

\* ----------------------------------------------------------- getListings
\* getListings, getListingById and getStats on the table.  A text is a
\* sequence of characters, so that LIKE can be computed.

Gilo == <<"G", "i", "l", "o">>
Ramot == <<"R", "a", "m", "o", "t">>

\* A listing with the columns the filters look at; neighborhood None is
\* NULL.
QListing(id, source, neighborhood, price, rooms) ==
    [id |-> id, source |-> source, neighborhood |-> neighborhood,
     price |-> price, rooms |-> rooms, lat |-> Some(31), keys |-> "all"]

QListings ==
    {QListing("yad2_a", "yad2", Some(Gilo), 4500, 3),
     QListing("yad2_a", "manual", Some(Ramot), 5200, 4),
     QListing("yad2_b", "manual", None, 5200, 4),
     QListing("yad2_b", "yad2", Some(Ramot), 6000, 2)}

\* ListingFilters: a bound is None when undefined; a text is <<>> and a
\* source "" when undefined or empty.
Filters ==
    [minPrice : {None, Some(5000)},
     maxPrice : {None, Some(0), Some(5000)},
     minRooms : {None, Some(3)},
     maxRooms : {None, Some(3)},
     neighborhood : {<<>>, Gilo, <<"I", "L">>, <<"g", "i", "l", "o">>,
                     <<"_">>, <<"%">>},
     source : {"", "yad2"}]

NoFilters ==
    [minPrice |-> None, maxPrice |-> None, minRooms |-> None,
     maxRooms |-> None, neighborhood |-> <<>>, source |-> ""]

\* The 26 ASCII letters, upper and lower case in the same order.
Upper == <<"A", "B", "C", "D", "E", "F", "G", "H", "I", "J", "K", "L", "M",
           "N", "O", "P", "Q", "R", "S", "T", "U", "V", "W", "X", "Y", "Z">>
Lower == <<"a", "b", "c", "d", "e", "f", "g", "h", "i", "j", "k", "l", "m",
           "n", "o", "p", "q", "r", "s", "t", "u", "v", "w", "x", "y", "z">>

\* SQLite folds the ASCII letters, and no other character, when LIKE
\* compares two characters.
Fold(c) ==
    IF \E i \in 1..Len(Upper) : Upper[i] = c
    THEN Lower[CHOOSE i \in 1..Len(Upper) : Upper[i] = c]
    ELSE c

\* text LIKE pattern: % matches any run of characters, _ any one character,
\* any other character itself up to ASCII case; there is no escape character.
RECURSIVE Like(_, _)
Like(text, pattern) ==
    IF pattern = <<>> THEN text = <<>>
    ELSE IF Head(pattern) = "%"
         THEN \/ Like(text, Tail(pattern))
              \/ text # <<>> /\ Like(Tail(text), pattern)
    ELSE IF text = <<>> THEN FALSE
    ELSE /\ Head(pattern) = "_" \/ Fold(Head(pattern)) = Fold(Head(text))
         /\ Like(Tail(text), Tail(pattern))

\* The WHERE clause getListings builds: is_active = 1 and one condition for
\* every filter that is truthy; a comparison with NULL is not true.
Selected(r, filters) ==
    /\ r.is_active = 1
    /\ TruthyNum(filters.minPrice) => r.values.price >= filters.minPrice[1]
    /\ TruthyNum(filters.maxPrice) => r.values.price <= filters.maxPrice[1]
    /\ TruthyNum(filters.minRooms) => r.values.rooms >= filters.minRooms[1]
    /\ TruthyNum(filters.maxRooms) => r.values.rooms <= filters.maxRooms[1]
    /\ filters.neighborhood # <<>> =>
          /\ r.values.neighborhood # None
          /\ Like(r.values.neighborhood[1],
                  <<"%">> \o filters.neighborhood \o <<"%">>)
    /\ TruthyStr(filters.source) => r.values.source = filters.source

\* getListings(filters): the rows selected (their order is not modelled).
getListings(table, filters) == {r \in table : Selected(r, filters)}

\* getListingById(id): SELECT * FROM listings WHERE id = ?
getListingById(table, id) == {r \in table : r.values.id = id}

\* getStats().total: COUNT(*) ... WHERE is_active = 1
getStatsTotal(table) == Cardinality({r \in table : r.is_active = 1})

\* A getListings call on the table.
GetListings(filters) ==
    /\ qres = NotQueried
    /\ qfilters' = filters
    /\ qres' = getListings(rows, filters)
    /\ UNCHANGED <<run, client, post, bucket, extraction, gate, calls, store, building>>

\* The table when the database file is created, and no query made.
InitQuery ==
    /\ InitRun
    /\ ClientIdle
    /\ PostIdle
    /\ pages = 1 /\ ~geocode /\ ~googleApiKey /\ variant = "http"
    /\ BucketIdle
    /\ ExtractionIdle
    /\ GateIdle
    /\ CallsIdle
    /\ StoreIdle
    /\ BuildingIdle
    /\ QueryIdle

\* Writes and soft deletes, then one query.
NextQuery ==
    \/ qres = NotQueried /\ \E listing \in QListings : insertListing(listing)
    \/ qres = NotQueried /\ \E id \in DbIds : deleteListing(id)
    \/ \E filters \in Filters : GetListings(filters)

SpecQuery == InitQuery /\ [][NextQuery]_vars

\* text contains part, letters compared up to ASCII case.
Contains(text, part) ==
    \E k \in 0..(Len(text) - Len(part)) :
       \A i \in 1..Len(part) : Fold(text[k + i]) = Fold(part[i])

\* The row satisfies every filter that was supplied.
SatisfiesSupplied(r, filters) ==
    /\ filters.minPrice # None => r.values.price >= filters.minPrice[1]
    /\ filters.maxPrice # None => r.values.price <= filters.maxPrice[1]
    /\ filters.minRooms # None => r.values.rooms >= filters.minRooms[1]
    /\ filters.maxRooms # None => r.values.rooms <= filters.maxRooms[1]
    /\ filters.neighborhood # <<>> =>
          /\ r.values.neighborhood # None
          /\ Contains(r.values.neighborhood[1], filters.neighborhood)
    /\ filters.source # "" => r.values.source = filters.source

\* C27: a getListings call returns exactly the rows with is_active = 1 that
\* satisfy every supplied filter (price and rooms within the bounds given,
\* neighborhood containing the text given, source equal to the one given); a
\* soft-deleted row is not among the rows returned and is not counted by
\* getStats, and getListingById returns it.
C27_ExactlyActiveMatching ==
    /\ qres # NotQueried =>
          qres = {r \in rows : r.is_active = 1
                                  /\ SatisfiesSupplied(r, qfilters)}
    /\ \A r \in rows :
          r.is_active = 0 =>
             /\ qres # NotQueried => r \notin qres
             /\ getListingById(rows, r.values.id) = {r}
    /\ getStatsTotal(rows) = Cardinality(rows \ {r \in rows : r.is_active = 0})

\* ------------------------------------------------- soft delete and upsert

\* C24: once the row of an id is soft-deleted, getListings does not return a
\* row of that id after any later call on the table, an upsert of the same id
\* by insertListing or insertListings included.
C24_DeletedStaysHidden ==
    [][\A r \in rows :
          r.is_active = 0 =>
             \A q \in getListings(rows', NoFilters) :
                q.values.id # r.values.id]_vars

\* ------------------------------------------------------ POST /api/listings

\* req.body: the four required fields ("" and None when missing); the
\* optional fields are left out.
Bodies ==
    [address : {"", "Hillel 5", "Jaffa Street 25"},
     price : {None, Some(0), Some(4500), Some(5200)},
     rooms : {None, Some(2), Some(3)},
     contact_info : {"", "050-1234567"}]

\* geocodeAddress resolves with coordinates, resolves with null, or rejects.
GeoAnswers == {"coords", "null", "throws"}

\* if (!address || !price || !rooms || !contact_info)
MissingRequired(body) ==
    \/ ~TruthyStr(body.address)
    \/ ~TruthyNum(body.price)
    \/ ~TruthyNum(body.rooms)
    \/ ~TruthyStr(body.contact_info)

\* The object the handler builds: id `manual_${v4()}`, the price, lat from
\* the geocoder when it answered with coordinates.
ManualListing(body, answer, n) ==
    BuiltBy("manual",
            DbListing("manual_" \o ToString(n), body.price[1],
                      IF answer = "coords" THEN Some(31) ELSE None))

\* The handler of POST /api/listings, from the request to the answer.
PostListing(body, answer) ==
    /\ now < MaxOps
    /\ now' = now + 1
    /\ pbody' = body
    /\ IF MissingRequired(body)
       THEN /\ presp' = 400
            /\ pgeo' = "notCalled"
            /\ UNCHANGED <<rows, dbret>>
       ELSE /\ pgeo' = answer
            /\ LET listing == ManualListing(body, answer, now') IN
               IF Bindable(listing)
               THEN /\ rows' = insertOrReplace(rows, listing, now')
                    /\ dbret' = Returned("void", 0)
                    /\ presp' = 201
               ELSE /\ dbret' = Returned("throw", 0)
                    /\ presp' = 500
                    /\ UNCHANGED rows
    /\ UNCHANGED <<run, client, bucket, extraction, gate, calls, building, query,
                   written, given>>

InitPost ==
    /\ InitRun
    /\ ClientIdle
    /\ pages = 1 /\ ~geocode /\ ~googleApiKey /\ variant = "http"
    /\ BucketIdle
    /\ ExtractionIdle
    /\ GateIdle
    /\ CallsIdle
    /\ StoreIdle
    /\ BuildingIdle
    /\ QueryIdle
    /\ PostIdle

NextPost == \E body \in Bodies, answer \in GeoAnswers : PostListing(body, answer)

SpecPost == InitPost /\ [][NextPost]_vars

\* C22: a request with one of address, price, rooms, contact_info missing is
\* answered 400 and leaves the table as it was; a request with all four is
\* answered 201 and its listing is in the table, with coordinates when the
\* geocoder gave some and without when it answered null or failed.
C22_CreatedOrRejected ==
    [][now' # now =>
          IF MissingRequired(pbody')
          THEN presp' = 400 /\ rows' = rows
          ELSE /\ presp' = 201
               /\ \E r \in rows' \ rows :
                     /\ r.values.price = pbody'.price[1]
                     /\ (r.values.lat # None) = (pgeo' = "coords")]_vars

\* ------------------------------------------------------------- the client
\* App: loadListings and its effect, handleScrape, handleDelete, and the
\* submit handler of AddListingForm.  A fetchListings request is named by the
\* filters it was made for, and its response is the one for those filters.

\* The most changes of the filters.
MaxChanges == 1

\* The most uses of the form and of handleDelete under way at once: the form
\* shown, with the createListing request it may have sent, the createListing
\* requests of forms closed since, the reloads that follow a createListing
\* request, and the removeListing requests.
MaxPending == 1

\* The filters the client has had.
Versions == 0..MaxChanges

\* The requests counted by f, all filters together, from filters n down.
RECURSIVE TotalUpTo(_, _)
TotalUpTo(f, n) == IF n < 0 THEN 0 ELSE f[n] + TotalUpTo(f, n - 1)

\* The form shown, the createListing requests of closed forms, the reloads
\* after a createListing request and the removeListing requests in flight.
Pending ==
    (IF showAddForm THEN 1 ELSE 0)
    + TotalUpTo(oposts, MaxChanges) + TotalUpTo(aflight, MaxChanges)
    + nDeleting + nGone

\* setFilters(...) from the sidebar: the render gives a new loadListings, and
\* the effect calls it: setIsLoading(true), then the request.
ChangeFilters ==
    /\ cver < MaxChanges
    /\ cver' = cver + 1
    /\ cflight' = cflight \cup {cver + 1}
    /\ isLoading' = TRUE
    /\ UNCHANGED <<offClient, rflight, cshown, cerror, isScraping, nScraping,
                   sver, sfinally, adding, deleting, cremoved>>

\* What loadListings does when its request settles: the response is shown
\* and the error cleared, or the error set; finally setIsLoading(false).
\* The response holds the listings of any number of the removeListing
\* requests in flight.
Settled(ver, ok) ==
    /\ IF ok
       THEN /\ cshown' = ver /\ cerror' = FALSE /\ cremoved' = FALSE
            /\ \E held \in 0..(nDeleting + nGone) :
                  /\ nDeleting' = held
                  /\ nGone' = nDeleting + nGone - held
       ELSE cerror' = TRUE /\ UNCHANGED <<cshown, cremoved, deleting>>
    /\ isLoading' = FALSE

\* A request of the effect settles.
FetchSettles(ver, ok) ==
    /\ ver \in cflight
    /\ cflight' = cflight \ {ver}
    /\ Settled(ver, ok)
    /\ UNCHANGED <<offClient, cver, rflight, isScraping, nScraping, sver,
                   sfinally, adding>>

\* A scrape button that is never disabled.
ClickScrapeAlways ==
    /\ isScraping' = TRUE
    /\ nScraping' = nScraping + 1
    /\ nScraping < 2
    /\ sver' = cver
    /\ UNCHANGED <<offClient, cver, cflight, rflight, cshown, cerror,
                   isLoading, sfinally, adding, deleting, cremoved>>

\* A click on the scrape button, which is disabled while isScraping:
\* handleScrape sets isScraping and sends the scrape request.
ClickScrape ==
    /\ ~isScraping
    /\ isScraping' = TRUE
    /\ nScraping' = nScraping + 1
    /\ sver' = cver
    /\ UNCHANGED <<offClient, cver, cflight, rflight, cshown, cerror,
                   isLoading, sfinally, adding, deleting, cremoved>>

\* The scrape request settles.  On success handleScrape calls the
\* loadListings of the render it was created in, which asks for the filters
\* of that render, and awaits it.  On failure the catch and the finally run:
\* setIsScraping(false).  Either way the handler reads its loadListings no
\* more.
ScrapeSettles(ok) ==
    /\ nScraping > 0
    /\ nScraping' = nScraping - 1
    /\ sver' = 0
    /\ IF ok
       THEN /\ rflight' = rflight \cup {sver}
            /\ isLoading' = TRUE
            /\ UNCHANGED isScraping
       ELSE /\ isScraping' = FALSE
            /\ UNCHANGED <<rflight, isLoading>>
    /\ UNCHANGED <<offClient, cver, cflight, cshown, cerror, sfinally,
                   adding, deleting, cremoved>>

\* The reload of handleScrape settles: loadListings runs to its end, catching
\* a failure itself, and its promise resolves; handleScrape is resumed later.
ReloadSettles(ver, ok) ==
    /\ ver \in rflight
    /\ rflight' = rflight \ {ver}
    /\ Settled(ver, ok)
    /\ sfinally' = TRUE
    /\ UNCHANGED <<offClient, cver, cflight, isScraping, nScraping, sver,
                   adding>>

\* handleScrape is resumed after `await loadListings()`: its finally runs
\* setIsScraping(false).
ScrapeFinally ==
    /\ sfinally
    /\ sfinally' = FALSE
    /\ isScraping' = FALSE
    /\ UNCHANGED <<offClient, cver, cflight, rflight, cshown, cerror,
                   isLoading, nScraping, sver, adding, deleting, cremoved>>

\* onAddClick: setShowAddForm(true) mounts AddListingForm.
OpenForm ==
    /\ ~showAddForm
    /\ Pending < MaxPending
    /\ showAddForm' = TRUE
    /\ UNCHANGED <<offClient, cver, cflight, rflight, cshown, cerror,
                   isLoading, isScraping, nScraping, sver, sfinally, mpost,
                   oposts, aflight, deleting, cremoved>>

\* The requests of forms no longer mounted, once the mounted form is gone.
Orphaned(posts) ==
    IF mpost = -1 THEN posts ELSE [posts EXCEPT ![mpost] = @ + 1]

\* onClose from the overlay, the close or the cancel button:
\* setShowAddForm(false) unmounts the form; a request it sent stays in
\* flight.
CloseForm ==
    /\ showAddForm
    /\ showAddForm' = FALSE
    /\ oposts' = Orphaned(oposts)
    /\ mpost' = -1
    /\ UNCHANGED <<offClient, cver, cflight, rflight, cshown, cerror,
                   isLoading, isScraping, nScraping, sver, sfinally, aflight,
                   deleting, cremoved>>

\* handleSubmit with the required fields filled in, the submit button being
\* disabled while isSubmitting: the createListing request is sent.  The
\* handler holds the onListingAdded of the render it was created in.
SubmitForm ==
    /\ showAddForm /\ mpost = -1
    /\ mpost' = cver
    /\ UNCHANGED <<offClient, cver, cflight, rflight, cshown, cerror,
                   isLoading, isScraping, nScraping, sver, sfinally,
                   showAddForm, oposts, aflight, deleting, cremoved>>

\* onListingAdded(); onClose(); after a createListing request for filters
\* ver succeeded: loadListings is called and not awaited, and the form shown
\* is unmounted.
ListingAdded(ver, posts) ==
    /\ aflight' = [aflight EXCEPT ![ver] = @ + 1]
    /\ isLoading' = TRUE
    /\ showAddForm' = FALSE
    /\ oposts' = posts

\* The createListing request of the mounted form settles; on failure the
\* form shows the error and stays.
PostSettles(ok) ==
    /\ mpost # -1
    /\ mpost' = -1
    /\ IF ok
       THEN ListingAdded(mpost, oposts)
       ELSE UNCHANGED <<aflight, isLoading, showAddForm, oposts>>
    /\ UNCHANGED <<offClient, cver, cflight, rflight, cshown, cerror,
                   isScraping, nScraping, sver, sfinally, deleting,
                   cremoved>>

\* The createListing request of a form that was closed settles; its
\* onClose unmounts the form that is shown now.
ClosedPostSettles(ver, ok) ==
    /\ oposts[ver] > 0
    /\ IF ok
       THEN /\ ListingAdded(ver, Orphaned([oposts EXCEPT ![ver] = @ - 1]))
            /\ mpost' = -1
       ELSE /\ oposts' = [oposts EXCEPT ![ver] = @ - 1]
            /\ UNCHANGED <<aflight, isLoading, showAddForm, mpost>>
    /\ UNCHANGED <<offClient, cver, cflight, rflight, cshown, cerror,
                   isScraping, nScraping, sver, sfinally, deleting,
                   cremoved>>

\* A reload called by a form settles.
AddReloadSettles(ver, ok) ==
    /\ aflight[ver] > 0
    /\ aflight' = [aflight EXCEPT ![ver] = @ - 1]
    /\ Settled(ver, ok)
    /\ UNCHANGED <<offClient, cver, cflight, rflight, isScraping, nScraping,
                   sver, sfinally, showAddForm, mpost, oposts>>

\* onDelete on the card of a listing shown: handleDelete sends the
\* removeListing request.
ClickDelete ==
    /\ cshown # -1
    /\ Pending < MaxPending
    /\ nDeleting' = nDeleting + 1
    /\ UNCHANGED <<offClient, cver, cflight, rflight, cshown, cerror,
                   isLoading, isScraping, nScraping, sver, sfinally, adding,
                   nGone, cremoved>>

\* A removeListing request settles; a failure is logged.  On success
\* prev.filter(l => l.id !== id) runs on the listings shown, with no
\* request: when they hold the listing (held) it is filtered out, and the
\* other requests in flight for the same listing, `same` of them, find it
\* gone; when they do not hold it the listings stay as they are.
DeleteSettles(ok, held) ==
    /\ IF held
       THEN /\ nDeleting > 0
            /\ \E same \in 0..(nDeleting - 1) :
                  /\ ok \/ same = 0
                  /\ nDeleting' = nDeleting - 1 - (IF ok THEN same ELSE 0)
                  /\ nGone' = nGone + (IF ok THEN same ELSE 0)
            /\ cremoved' = (ok \/ cremoved)
       ELSE /\ nGone > 0
            /\ nGone' = nGone - 1
            /\ UNCHANGED <<nDeleting, cremoved>>
    /\ UNCHANGED <<offClient, cver, cflight, rflight, cshown, cerror,
                   isLoading, isScraping, nScraping, sver, sfinally, adding>>

\* App is mounted: the effect has called loadListings for the first filters.
InitClient ==
    /\ InitRun
    /\ pages = 1 /\ ~geocode /\ ~googleApiKey /\ variant = "http"
    /\ BucketIdle
    /\ ExtractionIdle
    /\ GateIdle
    /\ CallsIdle
    /\ StoreIdle
    /\ BuildingIdle
    /\ QueryIdle
    /\ PostIdle
    /\ cver = 0
    /\ cflight = {0}
    /\ rflight = {}
    /\ cshown = -1
    /\ cerror = FALSE
    /\ isLoading = TRUE
    /\ isScraping = FALSE
    /\ nScraping = 0
    /\ sver = 0
    /\ sfinally = FALSE
    /\ showAddForm = FALSE
    /\ mpost = -1
    /\ oposts = [ver \in Versions |-> 0]
    /\ aflight = [ver \in Versions |-> 0]
    /\ nDeleting = 0
    /\ nGone = 0
    /\ cremoved = FALSE

NextClient ==
    \/ ChangeFilters
    \/ \E ver \in Versions, ok \in BOOLEAN : FetchSettles(ver, ok)
    \/ ClickScrape
    \/ \E ok \in BOOLEAN : ScrapeSettles(ok)
    \/ \E ver \in Versions, ok \in BOOLEAN : ReloadSettles(ver, ok)
    \/ ScrapeFinally
    \/ OpenForm
    \/ CloseForm
    \/ SubmitForm
    \/ \E ok \in BOOLEAN : PostSettles(ok)
    \/ \E ver \in Versions, ok \in BOOLEAN : ClosedPostSettles(ver, ok)
    \/ \E ver \in Versions, ok \in BOOLEAN : AddReloadSettles(ver, ok)
    \/ ClickDelete
    \/ \E ok \in BOOLEAN, held \in BOOLEAN : DeleteSettles(ok, held)

SpecClient == InitClient /\ [][NextClient]_vars

\* The scrape request and the reload after it settle.
RequestsSettle ==
    /\ WF_vars(\E ok \in BOOLEAN : ScrapeSettles(ok))
    /\ WF_vars(\E ver \in Versions, ok \in BOOLEAN : ReloadSettles(ver, ok))

\* A handler whose awaited promise has resolved is resumed.
HandlersResume == WF_vars(ScrapeFinally)

SpecClientFair == SpecClient /\ RequestsSettle /\ HandlersResume

\* A fetchListings request is in flight.
FetchInFlight ==
    \/ cflight # {}
    \/ rflight # {}
    \/ \E ver \in Versions : aflight[ver] > 0

\* C28: when no fetchListings request is in flight and no error is shown, the
\* listings displayed are the response for the latest filters; and isLoading
\* is false only when no fetchListings request is in flight.
C28_LatestFiltersShown ==
    /\ (~FetchInFlight /\ ~cerror) => cshown = cver
    /\ ~isLoading => ~FetchInFlight

\* At most one scrape request is in flight, and isScraping is true exactly
\* while the scrape request or its reload is in flight or handleScrape has
\* yet to run its finally.
ScrapingGuarded ==
    /\ nScraping <= 1
    /\ isScraping = (nScraping > 0 \/ rflight # {} \/ sfinally)

\* C29: a click on the scrape button sets isScraping; while a scrape request
\* or the reload after it is in flight, and until handleScrape has run its
\* finally, isScraping is true, so that the button is disabled and no second
\* scrape request is sent; when the scrape fails, or when handleScrape is
\* resumed after the reload settled with or without an error, isScraping is
\* false again; and it does become false again.
C29_ScrapingFlagGuards ==
    /\ ScrapingGuarded /\ [][ScrapingGuarded']_vars
    /\ [][nScraping' > nScraping => ~isScraping /\ isScraping']_vars
    /\ [][(nScraping' < nScraping /\ rflight' = rflight) => ~isScraping']_vars
    /\ [][rflight' \subseteq rflight /\ rflight' # rflight => sfinally']_vars
    /\ [][sfinally /\ ~sfinally' => ~isScraping']_vars
    /\ (isScraping ~> ~isScraping)

\* The scrape has succeeded and its reload has settled with an error, for the
\* filters the client had at the click, which were changed since; the
\* handler has not run its finally yet.
C29_Witness ==
    /\ isScraping /\ nScraping = 0
    /\ rflight = {} /\ sfinally
    /\ cerror /\ ~isLoading
    /\ cver = 1 /\ cshown = -1

====
